---- MODULE Spec2Model ----
(***************************************************************************)
(* MoveSwap: hash time-locked contracts on Ethereum (HTLC.sol) and on Sui  *)
(* (htlc.move), the scripted coordinator AtomicSwap.performETHtoSUISwap    *)
(* (examples/eth_sui_swap.ts) and the step-by-step coordinator             *)
(* AtomicSwapCLI (unnamed/part_009).                                       *)
(*                                                                         *)
(* Both chains read one wall clock `now`, in seconds.  Addresses are       *)
(* externally owned accounts, so a native transfer to them succeeds        *)
(* whenever the paying contract holds the amount.                          *)
(***************************************************************************)
EXTENDS Integers, Sequences, FiniteSets, TLC

(***************************************************************************)
(* Bounds of the model                                                     *)
(***************************************************************************)
\* Sui HTLC objects third parties may create (create_htlc has no limit).
MaxSuiObjects == 1
\* Seconds that may pass between the two Date.now() reads of
\* generateSwapDetails.
MaxGenDelay == 1
\* Native coins each account starts with.
InitBalance == 2
\* Sui HTLC objects up to which create-sui-htlc may still be given.
MaxCliObjects == 2
\* Cross-chain swaps third parties initiate on FusionPlusEscrow.
MaxEscrowSwaps == 1

(***************************************************************************)
(* Program constants                                                       *)
(***************************************************************************)
ethTimelockDuration == 7200
suiTimelockDuration == 3600
baseTimelockDuration == 7200
E_INVALID_SECRET == 2
E_ALREADY_WITHDRAWN == 3
E_ALREADY_REFUNDED == 4
E_TIMELOCK_NOT_EXPIRED == 5
E_TIMELOCK_EXPIRED == 6
E_UNAUTHORIZED == 7
\* option::extract on an empty Option aborts with std::option's
\* EOPTION_NOT_SET.
EOPTION_NOT_SET == 262145

(***************************************************************************)
(* Values                                                                  *)
(***************************************************************************)
ZeroAddress == "0x0"
HTLCAddress == "HTLC"
FusionAddress == "FUSION"
LimitOrderAddress == "ESCROW"
\* An ERC20 token contract.
TokenAddress == "TOKEN"
Addresses == {"alice", "bob", "carol"}
OneInchHTLCAddress == "HTLC1INCH"
EthAccounts == Addresses \cup {HTLCAddress, FusionAddress, LimitOrderAddress, OneInchHTLCAddress}
\* (sender, receiver) of the locks third parties create; "carol" is neither.
Parties == {<<"alice", "bob">>}

ZeroBytes32 == "0x00"
EmptyVector == ""
Secrets == {"s1", "s2"}

\* SHA-256 and keccak-256 as free one-way functions: distinct inputs and
\* distinct functions give distinct digests.
Sha256(s) == "sha256(" \o s \o ")"
Keccak256(s) == "keccak256(" \o s \o ")"
Hashlocks == {Sha256("s1"), Keccak256("s1")}

HtlcIds == {"h1"}
\* ethers.utils.id: keccak-256 of the UTF-8 string.
EthId(htlcId) == Keccak256(htlcId)
EthIds == {EthId(h) : h \in HtlcIds}

Amounts == {0, 1}
Timelocks == {suiTimelockDuration, ethTimelockDuration}
\* The last instant of the model.
Horizon == ethTimelockDuration + 1

VARIABLES
    now,          \* wall clock, seconds
    ethLocks,     \* HTLC.sol: mapping(bytes32 => Lock) locks
    ethBalance,   \* wei held by each account and by the HTLC contract
    suiObjects,   \* htlc.move: the shared HTLC objects, in creation order
    suiBalance,   \* SUI coins owned by each address
    lastCall,     \* outcome of the last contract call
    swap,         \* AtomicSwap.performETHtoSUISwap: position and locals
    swapState,    \* AtomicSwapCLI.swapState
    cli,          \* AtomicSwapCLI: what the commands did on the chains
    fusionEscrow, \* FusionPlusEscrow: its three mappings
    fusionSwap,   \* Fusion+ AtomicSwap.performETHtoSUISwap: position, locals
    oneInchSwap,  \* OneInchHTLCSwap.createHTLCWithOneInch: its locals
    console,      \* the secrets written to standard output so far
    pending,      \* AtomicSwapCLI: the command handlers suspended at an await
    limitOrderEscrow, \* LimitOrderEscrow: orders, relayers and owner
    inchHTLC,         \* 1inch-enabled HTLC: locks and the integration address
    erc20             \* ERC20 ledgers: balances and allowances per token

chainVars == <<ethLocks, ethBalance, suiObjects, suiBalance, lastCall>>
ethVars == <<ethLocks, ethBalance>>
suiVars == <<suiObjects, suiBalance>>
inchVars == <<inchHTLC, erc20>>
restVars == <<pending, limitOrderEscrow, inchVars>>
integrationVars == <<fusionEscrow, fusionSwap, oneInchSwap, console, restVars>>
vars == <<now, ethLocks, ethBalance, suiObjects, suiBalance, lastCall,
          swap, swapState, cli, fusionEscrow, fusionSwap, oneInchSwap,
          console, restVars>>

(***************************************************************************)
(* HTLC.sol                                                                *)
(***************************************************************************)
\* The value of locks[id] for an id never written: every field zero.  A
\* lock whose token is not address(0) holds ERC20 tokens; the token's own
\* balances are kept by the token contract, whose transfer of tokens the
\* HTLC holds is taken to succeed.
\* created_at is written once by createHTLC and read by no state-changing
\* function; it is left out.
EmptyLock ==
    [htlc_id |-> ZeroBytes32, hashlock |-> ZeroBytes32, timelock |-> 0,
     sender |-> ZeroAddress, receiver |-> ZeroAddress, amount |-> 0,
     secret |-> ZeroBytes32, withdrawn |-> FALSE, refunded |-> FALSE,
     token |-> ZeroAddress]

Result(fn, err, code) == [fn |-> fn, err |-> err, code |-> code]

\* createHTLC without the "HTLC already exists" check.
createHTLC_require_overwrites(lock, receiver, timelock, value, t) ==
    IF ~(timelock > t) THEN "Timelock must be in the future"
    ELSE IF receiver = ZeroAddress THEN "Invalid receiver address"
    ELSE IF ~(value > 0) THEN "Amount must be greater than 0"
    ELSE "ok"

\* The require statements of createHTLC for an ETH lock, in order.
createHTLC_require(lock, receiver, timelock, value, t) ==
    IF ~(timelock > t) THEN "Timelock must be in the future"
    ELSE IF receiver = ZeroAddress THEN "Invalid receiver address"
    ELSE IF lock.sender # ZeroAddress THEN "HTLC already exists"
    ELSE IF ~(value > 0) THEN "Amount must be greater than 0"
    ELSE "ok"

createHTLC(caller, id, receiver, hashlock, timelock, value) ==
    LET err == createHTLC_require(ethLocks[id], receiver, timelock, value, now)
    IN  /\ ethBalance[caller] >= value
        /\ lastCall' = Result("createHTLC", err, 0)
        /\ IF err = "ok"
           THEN /\ ethLocks' = [ethLocks EXCEPT ![id] =
                        [htlc_id |-> id, hashlock |-> hashlock,
                         timelock |-> timelock, sender |-> caller,
                         receiver |-> receiver, amount |-> value,
                         secret |-> ZeroBytes32, withdrawn |-> FALSE,
                         refunded |-> FALSE, token |-> ZeroAddress]]
                /\ ethBalance' = [ethBalance EXCEPT
                        ![caller] = @ - value,
                        ![HTLCAddress] = @ + value]
           ELSE UNCHANGED ethVars

\* The require statements of createHTLC for an ERC20 lock, in order:
\* `allowance` is what the token reports for the caller, `transferred` what
\* its transferFrom returns.
createHTLC_ERC20_require(lock, receiver, timelock, allowance, transferred, t) ==
    IF ~(timelock > t) THEN "Timelock must be in the future"
    ELSE IF receiver = ZeroAddress THEN "Invalid receiver address"
    ELSE IF lock.sender # ZeroAddress THEN "HTLC already exists"
    ELSE IF ~(allowance > 0) THEN "Token allowance must be greater than 0"
    ELSE IF ~transferred THEN "Token transfer failed"
    ELSE "ok"

\* createHTLC with _token # address(0): the amount of the lock is the
\* allowance; the function is payable and msg.value, which this branch does
\* not read, stays in the contract.
createHTLC_ERC20(caller, id, receiver, hashlock, timelock, value, allowance, transferred) ==
    LET err == createHTLC_ERC20_require(ethLocks[id], receiver, timelock,
                                        allowance, transferred, now)
    IN  /\ ethBalance[caller] >= value
        /\ lastCall' = Result("createHTLC", err, 0)
        /\ IF err = "ok"
           THEN /\ ethLocks' = [ethLocks EXCEPT ![id] =
                        [htlc_id |-> id, hashlock |-> hashlock,
                         timelock |-> timelock, sender |-> caller,
                         receiver |-> receiver, amount |-> allowance,
                         secret |-> ZeroBytes32, withdrawn |-> FALSE,
                         refunded |-> FALSE, token |-> TokenAddress]]
                /\ ethBalance' = [ethBalance EXCEPT
                        ![caller] = @ - value,
                        ![HTLCAddress] = @ + value]
           ELSE UNCHANGED ethVars

\* claimHTLC without the "Already withdrawn" check.
claimHTLC_require_noWithdrawnCheck(lock, caller, secret, t) ==
    IF caller # lock.receiver THEN "Not the receiver"
    ELSE IF lock.refunded THEN "Already refunded"
    ELSE IF ~(t < lock.timelock) THEN "Timelock expired"
    ELSE IF Sha256(secret) # lock.hashlock THEN "Invalid secret"
    ELSE "ok"

\* claimHTLC comparing keccak256 of the secret with the hashlock.
claimHTLC_require_keccak(lock, caller, secret, t) ==
    IF caller # lock.receiver THEN "Not the receiver"
    ELSE IF lock.withdrawn THEN "Already withdrawn"
    ELSE IF lock.refunded THEN "Already refunded"
    ELSE IF ~(t < lock.timelock) THEN "Timelock expired"
    ELSE IF Keccak256(secret) # lock.hashlock THEN "Invalid secret"
    ELSE "ok"

\* claimHTLC accepting a claim at the timelock itself.
claimHTLC_require_atTimelock(lock, caller, secret, t) ==
    IF caller # lock.receiver THEN "Not the receiver"
    ELSE IF lock.withdrawn THEN "Already withdrawn"
    ELSE IF lock.refunded THEN "Already refunded"
    ELSE IF ~(t <= lock.timelock) THEN "Timelock expired"
    ELSE IF Sha256(secret) # lock.hashlock THEN "Invalid secret"
    ELSE "ok"

\* The require statements of claimHTLC that precede the transfer, in order.
claimHTLC_require(lock, caller, secret, t) ==
    IF caller # lock.receiver THEN "Not the receiver"
    ELSE IF lock.withdrawn THEN "Already withdrawn"
    ELSE IF lock.refunded THEN "Already refunded"
    ELSE IF ~(t < lock.timelock) THEN "Timelock expired"
    ELSE IF Sha256(secret) # lock.hashlock THEN "Invalid secret"
    ELSE "ok"

claimHTLC(caller, id, secret) ==
    LET lock == ethLocks[id]
        req == claimHTLC_require(lock, caller, secret, now)
        paid == IF lock.token = ZeroAddress THEN lock.amount ELSE 0
        err == IF req = "ok" /\ ethBalance[HTLCAddress] < paid
               THEN "ETH transfer failed" ELSE req
    IN  /\ lastCall' = Result("claimHTLC", err, 0)
        /\ IF err = "ok"
           THEN /\ ethLocks' = [ethLocks EXCEPT ![id].secret = secret,
                                                ![id].withdrawn = TRUE]
                /\ ethBalance' = [ethBalance EXCEPT
                        ![HTLCAddress] = @ - paid,
                        ![lock.receiver] = @ + paid]
           ELSE UNCHANGED ethVars

\* refundHTLC without the timelock check.
refundHTLC_require_noTimelock(lock, caller, t) ==
    IF caller # lock.sender THEN "Not the sender"
    ELSE IF lock.withdrawn THEN "Already withdrawn"
    ELSE IF lock.refunded THEN "Already refunded"
    ELSE "ok"

\* The require statements of refundHTLC that precede the transfer, in order.
refundHTLC_require(lock, caller, t) ==
    IF caller # lock.sender THEN "Not the sender"
    ELSE IF lock.withdrawn THEN "Already withdrawn"
    ELSE IF lock.refunded THEN "Already refunded"
    ELSE IF ~(t >= lock.timelock) THEN "Timelock not expired"
    ELSE "ok"

refundHTLC(caller, id) ==
    LET lock == ethLocks[id]
        req == refundHTLC_require(lock, caller, now)
        paid == IF lock.token = ZeroAddress THEN lock.amount ELSE 0
        err == IF req = "ok" /\ ethBalance[HTLCAddress] < paid
               THEN "ETH transfer failed" ELSE req
    IN  /\ lastCall' = Result("refundHTLC", err, 0)
        /\ IF err = "ok"
           THEN /\ ethLocks' = [ethLocks EXCEPT ![id].refunded = TRUE]
                /\ ethBalance' = [ethBalance EXCEPT
                        ![HTLCAddress] = @ - paid,
                        ![lock.sender] = @ + paid]
           ELSE UNCHANGED ethVars

(***************************************************************************)
(* htlc.move                                                               *)
(***************************************************************************)
\* clock::timestamp_ms(clock) / 1000
current_time == (now * 1000) \div 1000

\* Option<Coin<SUI>>: <<v>> is some(coin of value v), <<>> is none.
Some(v) == <<v>>
None == <<>>

SuiIds == 1..Len(suiObjects)

\* create_htlc validates nothing: it wraps the payment into a new shared
\* object.
create_htlc(caller, htlc_id, receiver, hashlock, timelock, payment) ==
    /\ suiBalance[caller] >= payment
    /\ suiObjects' = Append(suiObjects,
            [htlc_id |-> htlc_id, hashlock |-> hashlock,
             timelock |-> timelock, sender |-> caller,
             receiver |-> receiver, amount |-> payment,
             secret |-> EmptyVector, withdrawn |-> FALSE,
             refunded |-> FALSE, coin |-> Some(payment)])
    /\ suiBalance' = [suiBalance EXCEPT ![caller] = @ - payment]
    /\ lastCall' = Result("create_htlc", "ok", 0)

\* claim_with_secret with the timelock comparison inverted.
claim_with_secret_abort_afterTimelock(htlc, caller, secret, t) ==
    IF htlc.receiver # caller THEN E_UNAUTHORIZED
    ELSE IF htlc.withdrawn THEN E_ALREADY_WITHDRAWN
    ELSE IF htlc.refunded THEN E_ALREADY_REFUNDED
    ELSE IF ~(t >= htlc.timelock) THEN E_TIMELOCK_EXPIRED
    ELSE IF Sha256(secret) # htlc.hashlock THEN E_INVALID_SECRET
    ELSE IF htlc.coin = None THEN EOPTION_NOT_SET
    ELSE 0

\* claim_with_secret without the E_TIMELOCK_EXPIRED check.
claim_with_secret_abort_noExpiry(htlc, caller, secret, t) ==
    IF htlc.receiver # caller THEN E_UNAUTHORIZED
    ELSE IF htlc.withdrawn THEN E_ALREADY_WITHDRAWN
    ELSE IF htlc.refunded THEN E_ALREADY_REFUNDED
    ELSE IF Sha256(secret) # htlc.hashlock THEN E_INVALID_SECRET
    ELSE IF htlc.coin = None THEN EOPTION_NOT_SET
    ELSE 0

\* claim_with_secret without the E_INVALID_SECRET check.
claim_with_secret_abort_anySecret(htlc, caller, secret, t) ==
    IF htlc.receiver # caller THEN E_UNAUTHORIZED
    ELSE IF htlc.withdrawn THEN E_ALREADY_WITHDRAWN
    ELSE IF htlc.refunded THEN E_ALREADY_REFUNDED
    ELSE IF ~(t < htlc.timelock) THEN E_TIMELOCK_EXPIRED
    ELSE IF htlc.coin = None THEN EOPTION_NOT_SET
    ELSE 0

\* claim_with_secret without the E_ALREADY_WITHDRAWN assertion.
claim_with_secret_abort_noWithdrawnCheck(htlc, caller, secret, t) ==
    IF htlc.receiver # caller THEN E_UNAUTHORIZED
    ELSE IF htlc.refunded THEN E_ALREADY_REFUNDED
    ELSE IF ~(t < htlc.timelock) THEN E_TIMELOCK_EXPIRED
    ELSE IF Sha256(secret) # htlc.hashlock THEN E_INVALID_SECRET
    ELSE IF htlc.coin = None THEN EOPTION_NOT_SET
    ELSE 0

\* The abort code of claim_with_secret, 0 when it runs to the end.
claim_with_secret_abort(htlc, caller, secret, t) ==
    IF htlc.receiver # caller THEN E_UNAUTHORIZED
    ELSE IF htlc.withdrawn THEN E_ALREADY_WITHDRAWN
    ELSE IF htlc.refunded THEN E_ALREADY_REFUNDED
    ELSE IF ~(t < htlc.timelock) THEN E_TIMELOCK_EXPIRED
    ELSE IF Sha256(secret) # htlc.hashlock THEN E_INVALID_SECRET
    ELSE IF htlc.coin = None THEN EOPTION_NOT_SET
    ELSE 0

claim_with_secret(caller, o, secret) ==
    LET htlc == suiObjects[o]
        code == claim_with_secret_abort(htlc, caller, secret, current_time)
    IN  /\ lastCall' = Result("claim_with_secret",
                              IF code = 0 THEN "ok" ELSE "abort", code)
        /\ IF code = 0
           THEN /\ suiObjects' = [suiObjects EXCEPT ![o].secret = secret,
                                                    ![o].withdrawn = TRUE,
                                                    ![o].coin = None]
                /\ suiBalance' = [suiBalance EXCEPT
                        ![caller] = @ + htlc.coin[1]]
           ELSE UNCHANGED suiVars

\* refund_htlc accepting only times after the timelock.
refund_htlc_abort_afterTimelock(htlc, caller, t) ==
    IF htlc.sender # caller THEN E_UNAUTHORIZED
    ELSE IF htlc.withdrawn THEN E_ALREADY_WITHDRAWN
    ELSE IF htlc.refunded THEN E_ALREADY_REFUNDED
    ELSE IF ~(t > htlc.timelock) THEN E_TIMELOCK_NOT_EXPIRED
    ELSE IF htlc.coin = None THEN EOPTION_NOT_SET
    ELSE 0

\* The abort code of refund_htlc, 0 when it runs to the end.
refund_htlc_abort(htlc, caller, t) ==
    IF htlc.sender # caller THEN E_UNAUTHORIZED
    ELSE IF htlc.withdrawn THEN E_ALREADY_WITHDRAWN
    ELSE IF htlc.refunded THEN E_ALREADY_REFUNDED
    ELSE IF ~(t >= htlc.timelock) THEN E_TIMELOCK_NOT_EXPIRED
    ELSE IF htlc.coin = None THEN EOPTION_NOT_SET
    ELSE 0

refund_htlc(caller, o) ==
    LET htlc == suiObjects[o]
        code == refund_htlc_abort(htlc, caller, current_time)
    IN  /\ lastCall' = Result("refund_htlc",
                              IF code = 0 THEN "ok" ELSE "abort", code)
        /\ IF code = 0
           THEN /\ suiObjects' = [suiObjects EXCEPT ![o].refunded = TRUE,
                                                    ![o].coin = None]
                /\ suiBalance' = [suiBalance EXCEPT
                        ![caller] = @ + htlc.coin[1]]
           ELSE UNCHANGED suiVars

(***************************************************************************)
(* Transactions sent by arbitrary accounts                                 *)
(***************************************************************************)
coordVars == <<swap, swapState, cli>>

\* A secret is public once a claim stored it on a chain.
Revealed(s) ==
    \/ \E id \in EthIds : ethLocks[id].secret = s
    \/ \E o \in SuiIds : suiObjects[o].secret = s
\* Third parties do not know a coordinator's secret before it is revealed.
Known(s) ==
    \/ Revealed(s)
    \/ (s # swap.secret /\ s # swapState.secret /\ s # oneInchSwap.secret)

TxCreateHTLC ==
    \E p \in Parties, id \in EthIds, h \in Hashlocks, tl \in Timelocks,
       v \in Amounts, r \in {1, 2} :
        /\ createHTLC(p[1], id, IF r = 1 THEN p[2] ELSE ZeroAddress, h, tl, v)
        /\ UNCHANGED <<now, suiVars, coordVars, integrationVars>>

\* createHTLC for an ERC20 lock, with or without ETH attached.
TxCreateHTLCToken ==
    \E p \in Parties, id \in EthIds, h \in Hashlocks, tl \in Timelocks,
       v \in Amounts, allowance \in Amounts, transferred \in BOOLEAN :
        /\ createHTLC_ERC20(p[1], id, p[2], h, tl, v, allowance, transferred)
        /\ UNCHANGED <<now, suiVars, coordVars, integrationVars>>

TxClaimHTLC ==
    \E c \in Addresses, id \in EthIds, s \in Secrets :
        /\ Known(s)
        /\ claimHTLC(c, id, s)
        /\ UNCHANGED <<now, suiVars, coordVars, integrationVars>>

TxRefundHTLC ==
    \E c \in Addresses, id \in EthIds :
        /\ refundHTLC(c, id)
        /\ UNCHANGED <<now, suiVars, coordVars, integrationVars>>

TxCreateSui ==
    \E p \in Parties, id \in HtlcIds, h \in Hashlocks, tl \in Timelocks,
       v \in Amounts :
        /\ Len(suiObjects) < MaxSuiObjects
        /\ create_htlc(p[1], id, p[2], h, tl, v)
        /\ UNCHANGED <<now, ethVars, coordVars, integrationVars>>

TxClaimSui ==
    \E c \in Addresses, o \in SuiIds, s \in Secrets :
        /\ Known(s)
        /\ claim_with_secret(c, o, s)
        /\ UNCHANGED <<now, ethVars, coordVars, integrationVars>>

TxRefundSui ==
    \E c \in Addresses, o \in SuiIds :
        /\ refund_htlc(c, o)
        /\ UNCHANGED <<now, ethVars, coordVars, integrationVars>>

\* The instants the clock visits: one before every timelock, the timelocks
\* third parties set and the timelocks the coordinators generated.
Instants ==
    {1} \cup Timelocks
        \cup {swap.suiTimelock, swap.ethTimelock,
              swapState.suiTimelock, swapState.baseTimelock}

Tick ==
    /\ \E t \in Instants : t > now /\ t <= Horizon /\ now' = t
    /\ UNCHANGED <<chainVars, coordVars, integrationVars>>

(***************************************************************************)
(* AtomicSwap (examples/eth_sui_swap.ts)                                   *)
(***************************************************************************)
Undefined == "undefined"

\* The accounts of the coordinator's two wallets.
ethWalletAddress == "alice"
suiKeypairAddress == "alice"
\* Receiver addresses a swap may be started with.
SwapReceivers == {"alice", "bob"}
\* The amount a coordinator locks on a leg.
SwapAmount == 1

\* crypto.randomBytes(32) never repeats a secret.
Fresh(s) ==
    /\ s # swap.secret
    /\ s \notin cli.used
    /\ s # oneInchSwap.secret
    /\ \A id \in EthIds : ethLocks[id].hashlock # Sha256(s)
    /\ \A o \in SuiIds : suiObjects[o].hashlock # Sha256(s)

\* generateSwapDetails with the two timelock durations exchanged.
generateSwapDetails_swapped(secret, htlcId, t1, t2) ==
    [secret |-> secret, hashlock |-> Sha256(secret), htlcId |-> htlcId,
     ethTimelock |-> t1 + suiTimelockDuration,
     suiTimelock |-> t2 + ethTimelockDuration]

\* t1 and t2 are the two successive reads of Math.floor(Date.now() / 1000).
generateSwapDetails(secret, htlcId, t1, t2) ==
    [secret |-> secret, hashlock |-> Sha256(secret), htlcId |-> htlcId,
     ethTimelock |-> t1 + ethTimelockDuration,
     suiTimelock |-> t2 + suiTimelockDuration]

\* performETHtoSUISwap creating the Sui lock before the Ethereum lock.
performETHtoSUISwap_suiFirst(step) ==
    CASE step = "generate" -> "createSui"
      [] step = "createSui" -> "createEth"
      [] step = "createEth" -> "waitSui"
      [] step = "waitSui" -> "claimSui"
      [] step = "claimSui" -> "claimEth"
      [] step = "claimEth" -> "done"

\* The order of the awaited steps of performETHtoSUISwap.
performETHtoSUISwap(step) ==
    CASE step = "generate" -> "createEth"
      [] step = "createEth" -> "createSui"
      [] step = "createSui" -> "waitSui"
      [] step = "waitSui" -> "claimSui"
      [] step = "claimSui" -> "claimEth"
      [] step = "claimEth" -> "done"

\* `let retries = 3` of the two Sui submission loops.
SuiRetries == 3

IdleSwap ==
    [pc |-> "idle", secret |-> Undefined, hashlock |-> Undefined,
     htlcId |-> Undefined, ethTimelock |-> 0, suiTimelock |-> 0,
     ethReceiver |-> Undefined, suiReceiver |-> Undefined,
     ethHtlcResult |-> Undefined, suiHtlcResult |-> 0,
     suiFinalized |-> FALSE, suiClaimResult |-> Undefined,
     ethClaimResult |-> Undefined, retries |-> 0]

\* An awaited step has returned: go on to the next one.
SwapGoto(rec, step) ==
    LET next == performETHtoSUISwap(step)
    IN  [rec EXCEPT !.pc = next,
                    !.retries = IF next \in {"createSui", "claimSui"}
                                THEN SuiRetries ELSE 0]

\* performETHtoSUISwap up to its first await; it prints the generated
\* htlcId, hashlock, secret and timelocks.
SwapStart ==
    \E ethR \in SwapReceivers, suiR \in SwapReceivers, secret \in Secrets,
       htlcId \in HtlcIds, d \in 0..MaxGenDelay :
        /\ swap.pc = "idle"
        /\ Fresh(secret)
        /\ now + d <= Horizon
        /\ LET g == generateSwapDetails(secret, htlcId, now, now + d)
           IN  swap' = SwapGoto(
                    [IdleSwap EXCEPT !.secret = g.secret,
                                     !.hashlock = g.hashlock,
                                     !.htlcId = g.htlcId,
                                     !.ethTimelock = g.ethTimelock,
                                     !.suiTimelock = g.suiTimelock,
                                     !.ethReceiver = ethR,
                                     !.suiReceiver = suiR], "generate")
        /\ console' = console \cup {secret}
        /\ now' = now + d
        /\ UNCHANGED <<chainVars, swapState, cli, fusionEscrow, fusionSwap,
                       oneInchSwap, restVars>>

\* createEthereumHTLC: the transaction is mined; a revert is thrown.
SwapCreateEth ==
    /\ swap.pc = "createEth"
    /\ createHTLC(ethWalletAddress, EthId(swap.htlcId), swap.ethReceiver,
                  swap.hashlock, swap.ethTimelock, SwapAmount)
    /\ swap' = IF lastCall'.err = "ok"
               THEN SwapGoto([swap EXCEPT !.ethHtlcResult = "receipt"],
                             "createEth")
               ELSE [swap EXCEPT !.pc = "failed"]
    /\ UNCHANGED <<now, suiVars, swapState, cli, integrationVars>>

\* createSuiHTLC: the transaction is executed.
SwapCreateSui ==
    /\ swap.pc = "createSui"
    /\ create_htlc(suiKeypairAddress, swap.htlcId, swap.suiReceiver,
                   swap.hashlock, swap.suiTimelock, SwapAmount)
    /\ swap' = SwapGoto([swap EXCEPT !.suiHtlcResult = Len(suiObjects')],
                        "createSui")
    /\ UNCHANGED <<now, ethVars, swapState, cli, integrationVars>>

\* suiClient.waitForTransaction returns.
SwapWaitSui ==
    /\ swap.pc = "waitSui"
    /\ swap' = SwapGoto([swap EXCEPT !.suiFinalized = TRUE], "waitSui")
    /\ UNCHANGED <<now, chainVars, swapState, cli, integrationVars>>

\* claimSuiHTLC: an abort of claim_with_secret is thrown by the client.
SwapClaimSui ==
    /\ swap.pc = "claimSui"
    /\ claim_with_secret(suiKeypairAddress, swap.suiHtlcResult, swap.secret)
    /\ swap' = IF lastCall'.code = 0
               THEN SwapGoto([swap EXCEPT !.suiClaimResult = "result"],
                             "claimSui")
               ELSE [swap EXCEPT !.pc = "failed"]
    /\ UNCHANGED <<now, ethVars, swapState, cli, integrationVars>>

\* claimEthereumHTLC: the transaction is mined; a revert is thrown.
SwapClaimEth ==
    /\ swap.pc = "claimEth"
    /\ claimHTLC(ethWalletAddress, EthId(swap.htlcId), swap.secret)
    /\ swap' = IF lastCall'.err = "ok"
               THEN SwapGoto([swap EXCEPT !.ethClaimResult = "receipt"],
                             "claimEth")
               ELSE [swap EXCEPT !.pc = "failed"]
    /\ UNCHANGED <<now, suiVars, swapState, cli, integrationVars>>

\* The retry loops of createSuiHTLC and claimSuiHTLC: a 'fetch failed' error
\* is retried while retries > 1, and thrown otherwise.
SwapSuiFetchFailed ==
    /\ swap.pc \in {"createSui", "claimSui"}
    /\ swap' = IF swap.retries > 1
               THEN [swap EXCEPT !.retries = @ - 1]
               ELSE [swap EXCEPT !.pc = "failed"]
    /\ UNCHANGED <<now, chainVars, swapState, cli, integrationVars>>

\* Any other error of an awaited call (RPC failure, insufficient funds, no
\* coins, object not found) is thrown: the catch of performETHtoSUISwap
\* rethrows it and the swap ends.
SwapThrows ==
    /\ swap.pc \in {"createEth", "createSui", "waitSui", "claimSui",
                    "claimEth"}
    /\ swap' = [swap EXCEPT !.pc = "failed"]
    /\ UNCHANGED <<now, chainVars, swapState, cli, integrationVars>>

(***************************************************************************)
(* AtomicSwapCLI (unnamed/part_009)                                        *)
(*                                                                         *)
(* In the actions of this section every command runs to its end before    *)
(* the next one is read; commands that overlap are modelled in the section *)
(* on the readline loop.  The Base                                         *)
(* leg is a signed 1inch limit order; its fill happens on a contract that  *)
(* is not part of this repository, so its outcome is recorded in `cli`.    *)
(***************************************************************************)
\* The CLI signs Sui transactions with its own keypair.
cliSuiAddress == "alice"

\* this.swapState = {}: every field undefined.  fromChain, the token symbols
\* and fromAddress are written together with amount and toAddress by
\* initSwap and only printed or handed to the order afterwards.
EmptySwapState ==
    [secret |-> Undefined, hashlock |-> Undefined, htlcId |-> Undefined,
     baseTimelock |-> 0, suiTimelock |-> 0, amount |-> 0,
     toAddress |-> Undefined, baseLimitOrder |-> None, suiHtlcResult |-> 0,
     suiClaimResult |-> Undefined]

\* waited: waitForTransaction returned for swapState.suiHtlcResult;
\* filled: fillOrder was mined for swapState.baseLimitOrder;
\* presented: the secret among the arguments of that fillOrder call;
\* out: what the last command printed; used: the secrets generated so far.
IdleCli ==
    [waited |-> FALSE, filled |-> FALSE, presented |-> Undefined,
     out |-> Undefined, used |-> {}]

\* AtomicSwapCLI.generateSwapDetails; t1 and t2 are its two clock reads.
generateSwapDetailsCLI(secret, htlcId, t1, t2) ==
    [secret |-> secret, hashlock |-> Sha256(secret), htlcId |-> htlcId,
     baseTimelock |-> t1 + baseTimelockDuration,
     suiTimelock |-> t2 + suiTimelockDuration]

\* processCommand catches what a command throws and prints the message.
CommandThrows(message) ==
    /\ cli' = [cli EXCEPT !.out = message]
    /\ UNCHANGED <<now, chainVars, swap, swapState, integrationVars>>

\* init-swap: replaces the whole swapState and prints the generated
\* htlcId, hashlock, secret and timelocks.
initSwap ==
    \E toAddress \in SwapReceivers, secret \in Secrets, htlcId \in HtlcIds,
       d \in 0..MaxGenDelay :
        /\ Fresh(secret)
        /\ now + d <= Horizon
        /\ LET g == generateSwapDetailsCLI(secret, htlcId, now, now + d)
           IN  swapState' = [EmptySwapState EXCEPT
                                !.secret = g.secret,
                                !.hashlock = g.hashlock,
                                !.htlcId = g.htlcId,
                                !.baseTimelock = g.baseTimelock,
                                !.suiTimelock = g.suiTimelock,
                                !.amount = SwapAmount,
                                !.toAddress = toAddress]
        /\ cli' = [IdleCli EXCEPT !.out = "ok", !.used = cli.used \cup {secret}]
        /\ console' = console \cup {secret}
        /\ now' = now + d
        /\ UNCHANGED <<chainVars, swap, fusionEscrow, fusionSwap, oneInchSwap,
                       restVars>>

createBaseOrder_ready ==
    /\ swapState.amount # 0
    /\ swapState.toAddress # Undefined
    /\ swapState.htlcId # Undefined
    /\ swapState.baseTimelock # 0

\* create-base-order: signs the limit order, valid until baseTimelock.
createBaseOrder ==
    /\ createBaseOrder_ready
    /\ \E thrown \in BOOLEAN :
        IF thrown
        THEN /\ swapState' = swapState
             /\ cli' = [cli EXCEPT !.out = "call failed"]
        ELSE /\ swapState' = [swapState EXCEPT !.baseLimitOrder =
                                Some([validUntil |-> swapState.baseTimelock,
                                      secretHash |-> swapState.htlcId])]
             /\ cli' = [cli EXCEPT !.out = "ok", !.filled = FALSE]
    /\ UNCHANGED <<now, chainVars, swap, integrationVars>>

createBaseOrder_rejected ==
    /\ ~createBaseOrder_ready
    /\ CommandThrows("Swap not initialized")

createSuiHTLCStep_ready ==
    /\ swapState.htlcId # Undefined
    /\ swapState.hashlock # Undefined
    /\ swapState.suiTimelock # 0
    /\ swapState.amount # 0
    /\ swapState.toAddress # Undefined

\* create-sui-htlc: createSuiHTLC submits create_htlc, or throws.
createSuiHTLCStep ==
    /\ createSuiHTLCStep_ready
    /\ Len(suiObjects) < MaxCliObjects
    /\ \/ /\ create_htlc(cliSuiAddress, swapState.htlcId,
                         swapState.toAddress, swapState.hashlock,
                         swapState.suiTimelock, swapState.amount)
          /\ swapState' = [swapState EXCEPT
                              !.suiHtlcResult = Len(suiObjects')]
          /\ cli' = [cli EXCEPT !.out = "ok", !.waited = FALSE]
          /\ UNCHANGED <<now, ethVars, swap, integrationVars>>
       \/ CommandThrows("call failed")

createSuiHTLCStep_rejected ==
    /\ ~createSuiHTLCStep_ready
    /\ CommandThrows("Swap not initialized")

waitForSuiFinalization_ready == swapState.suiHtlcResult # 0

\* wait-for-sui-finalization: writes nothing to swapState.
waitForSuiFinalization ==
    /\ waitForSuiFinalization_ready
    /\ \E thrown \in BOOLEAN :
        cli' = IF thrown THEN [cli EXCEPT !.out = "call failed"]
               ELSE [cli EXCEPT !.out = "ok", !.waited = TRUE]
    /\ UNCHANGED <<now, chainVars, swap, swapState, integrationVars>>

waitForSuiFinalization_rejected ==
    /\ ~waitForSuiFinalization_ready
    /\ CommandThrows("Sui HTLC not created")

claimSuiHTLCStep_ready ==
    /\ swapState.htlcId # Undefined
    /\ swapState.secret # Undefined
    /\ swapState.hashlock # Undefined
    /\ swapState.suiHtlcResult # 0

\* claim-sui-htlc writing suiClaimResult before claimSuiHTLC has returned.
claimSuiHTLCStep_recordsFirst ==
    /\ claimSuiHTLCStep_ready
    /\ swapState' = [swapState EXCEPT !.suiClaimResult = "result"]
    /\ \/ /\ claim_with_secret(cliSuiAddress, swapState.suiHtlcResult,
                               swapState.secret)
          /\ cli' = [cli EXCEPT !.out = IF lastCall'.code = 0
                                        THEN "ok" ELSE "call failed"]
          /\ UNCHANGED <<now, ethVars, swap, integrationVars>>
       \/ /\ cli' = [cli EXCEPT !.out = "call failed"]
          /\ UNCHANGED <<now, chainVars, swap, integrationVars>>

\* claim-sui-htlc: claimSuiHTLC submits claim_with_secret; an abort or a
\* failed request is thrown.
claimSuiHTLCStep ==
    /\ claimSuiHTLCStep_ready
    /\ \/ /\ claim_with_secret(cliSuiAddress, swapState.suiHtlcResult,
                               swapState.secret)
          /\ IF lastCall'.code = 0
             THEN /\ swapState' = [swapState EXCEPT
                                      !.suiClaimResult = "result"]
                  /\ cli' = [cli EXCEPT !.out = "ok"]
             ELSE /\ swapState' = swapState
                  /\ cli' = [cli EXCEPT !.out = "call failed"]
          /\ UNCHANGED <<now, ethVars, swap, integrationVars>>
       \/ CommandThrows("call failed")

claimSuiHTLCStep_rejected ==
    /\ ~claimSuiHTLCStep_ready
    /\ CommandThrows("Required state missing")

executeBaseOrder_ready ==
    /\ swapState.baseLimitOrder # None
    /\ swapState.secret # Undefined

\* The arguments executeLimitOrder hands to fillOrder: the order struct
\* (predicate and interaction empty), the signature and the two amounts.
\* Its `secret` parameter is not among them.
fillOrder(order, signature, secret) ==
    [order |-> order, signature |-> signature, secret |-> Undefined]

\* execute-base-order: executeLimitOrder submits fillOrder, or throws.
executeBaseOrder ==
    /\ executeBaseOrder_ready
    /\ \E thrown \in BOOLEAN :
        cli' = IF thrown THEN [cli EXCEPT !.out = "call failed"]
               ELSE [cli EXCEPT
                        !.out = "ok", !.filled = TRUE,
                        !.presented =
                            fillOrder(swapState.baseLimitOrder, "signature",
                                      swapState.secret).secret]
    /\ UNCHANGED <<now, chainVars, swap, swapState, integrationVars>>

executeBaseOrder_rejected ==
    /\ ~executeBaseOrder_ready
    /\ CommandThrows("Base Limit Order not created or secret not available")

(***************************************************************************)
(* Process crash and restart                                               *)
(*                                                                         *)
(* Neither coordinator writes anything to disk: the script keeps the swap  *)
(* in the locals of performETHtoSUISwap, the CLI in this.swapState, which  *)
(* the constructor sets to {}.                                             *)
(***************************************************************************)
\* The script's process dies while a swap is in progress; its locals are
\* gone.  Starting the script again calls generateSwapDetails anew.
SwapCrash ==
    /\ swap.pc \in {"createEth", "createSui", "waitSui", "claimSui",
                    "claimEth"}
    /\ swap' = [IdleSwap EXCEPT !.pc = "crashed"]
    /\ UNCHANGED <<now, chainVars, swapState, cli, integrationVars>>

\* The CLI's process dies and is started again: new AtomicSwapCLI().
CliCrash ==
    /\ swapState # EmptySwapState
    /\ swapState' = EmptySwapState
    /\ cli' = [IdleCli EXCEPT !.used = cli.used]
    /\ UNCHANGED <<now, chainVars, swap, integrationVars>>

(***************************************************************************)
(* FusionPlusEscrow (unnamed/part_005)                                     *)
(*                                                                         *)
(* A cross-chain swap record has one timelock, read by both fills and by   *)
(* the refund.  Only native ETH swaps (ethToken = address(0)) are          *)
(* modelled.                                                               *)
(***************************************************************************)
swapTimelockDuration == 7200
orderExpirationDuration == 3600

\* mapping(bytes32 => CrossChainSwap) crossChainSwaps, as the set of written
\* entries; mapping(bytes32 => bool) usedHashlocks and processedOrders, as
\* the sets of keys mapped to true.
EmptyEscrow ==
    [crossChainSwaps |-> <<>>, usedHashlocks |-> {}, processedOrders |-> {}]

\* The value of crossChainSwaps at a key never written.
NoCrossChainSwap ==
    [initiator |-> ZeroAddress, nonEVMAddress |-> ZeroBytes32,
     hashlock |-> ZeroBytes32, timelock |-> 0, ethAmount |-> 0,
     ethFilled |-> FALSE, nonEVMFilled |-> FALSE,
     ethRefunded |-> FALSE, nonEVMRefunded |-> FALSE]

SwapIdsOf(escrow) == DOMAIN escrow.crossChainSwaps

crossChainSwap(escrow, swapId) ==
    IF swapId \in SwapIdsOf(escrow)
    THEN escrow.crossChainSwaps[swapId] ELSE NoCrossChainSwap

\* keccak256(abi.encodePacked(msg.sender, nonEVMAddress, hashlock,
\* block.timestamp)): injective on its arguments.
FusionSwapId(sender, nonEVMAddress, hashlock, t) ==
    <<sender, nonEVMAddress, hashlock, t>>

initiateCrossChainSwap_require(escrow, hashlock, timelock, amount, value, t) ==
    IF ~(timelock > t) THEN "Timelock must be in the future"
    ELSE IF hashlock \in escrow.usedHashlocks THEN "Hashlock already used"
    ELSE IF ~(amount > 0) THEN "ETH amount must be greater than 0"
    ELSE IF value # amount THEN "ETH amount mismatch"
    ELSE "ok"

initiateCrossChainSwap(caller, nonEVMAddress, hashlock, timelock, ethAmount, value) ==
    LET err == initiateCrossChainSwap_require(fusionEscrow, hashlock,
                                              timelock, ethAmount, value, now)
        swapId == FusionSwapId(caller, nonEVMAddress, hashlock, now)
    IN  /\ ethBalance[caller] >= value
        /\ lastCall' = Result("initiateCrossChainSwap", err, 0)
        /\ IF err = "ok"
           THEN /\ fusionEscrow' = [fusionEscrow EXCEPT
                     !.crossChainSwaps = @ @@ (swapId :>
                        [initiator |-> caller,
                         nonEVMAddress |-> nonEVMAddress,
                         hashlock |-> hashlock, timelock |-> timelock,
                         ethAmount |-> ethAmount,
                         ethFilled |-> FALSE, nonEVMFilled |-> FALSE,
                         ethRefunded |-> FALSE, nonEVMRefunded |-> FALSE]),
                     !.usedHashlocks = @ \cup {hashlock}]
                /\ ethBalance' = [ethBalance EXCEPT
                        ![caller] = @ - value,
                        ![FusionAddress] = @ + value]
           ELSE UNCHANGED <<fusionEscrow, ethBalance>>

\* createAndFillOrder: records the order as processed; the fill itself is
\* simulated and moves nothing.
createAndFillOrder_require(escrow, orderId, expiration, maker, taker, t) ==
    IF orderId \in escrow.processedOrders THEN "Order already processed"
    ELSE IF ~(expiration > t) THEN "Order expired"
    ELSE IF ~(maker # ZeroAddress /\ taker # ZeroAddress)
         THEN "Invalid addresses"
    ELSE "ok"

\* The require statements of fillEthereumSide that precede the transfer.
fillEthereumSide_require(s, secret, t) ==
    IF s.initiator = ZeroAddress THEN "Swap not found"
    ELSE IF s.ethFilled THEN "ETH side already filled"
    ELSE IF s.ethRefunded THEN "ETH side already refunded"
    ELSE IF ~(t < s.timelock) THEN "Timelock expired"
    ELSE IF Sha256(secret) # s.hashlock THEN "Invalid secret"
    ELSE "ok"

fillEthereumSide(caller, swapId, secret, recipient) ==
    LET s == crossChainSwap(fusionEscrow, swapId)
        req == fillEthereumSide_require(s, secret, now)
        err == IF req = "ok" /\ ethBalance[FusionAddress] < s.ethAmount
               THEN "ETH transfer failed" ELSE req
    IN  /\ lastCall' = Result("fillEthereumSide", err, 0)
        /\ IF err = "ok"
           THEN /\ fusionEscrow' = [fusionEscrow EXCEPT
                        !.crossChainSwaps[swapId].ethFilled = TRUE]
                /\ ethBalance' = [ethBalance EXCEPT
                        ![FusionAddress] = @ - s.ethAmount,
                        ![recipient] = @ + s.ethAmount]
           ELSE UNCHANGED <<fusionEscrow, ethBalance>>

fillNonEVMSide_require(s, secret, t) ==
    IF s.initiator = ZeroAddress THEN "Swap not found"
    ELSE IF s.nonEVMFilled THEN "Non-EVM side already filled"
    ELSE IF s.nonEVMRefunded THEN "Non-EVM side already refunded"
    ELSE IF ~(t < s.timelock) THEN "Timelock expired"
    ELSE IF Sha256(secret) # s.hashlock THEN "Invalid secret"
    ELSE "ok"

fillNonEVMSide(caller, swapId, secret) ==
    LET s == crossChainSwap(fusionEscrow, swapId)
        err == fillNonEVMSide_require(s, secret, now)
    IN  /\ lastCall' = Result("fillNonEVMSide", err, 0)
        /\ fusionEscrow' =
                IF err = "ok"
                THEN [fusionEscrow EXCEPT
                        !.crossChainSwaps[swapId].nonEVMFilled = TRUE]
                ELSE fusionEscrow
        /\ UNCHANGED ethBalance

\* refundEthereumSide without the timelock check.
refundEthereumSide_require_noTimelock(s, t) ==
    IF s.initiator = ZeroAddress THEN "Swap not found"
    ELSE IF s.ethFilled THEN "ETH side already filled"
    ELSE IF s.ethRefunded THEN "ETH side already refunded"
    ELSE "ok"

\* The require statements of refundEthereumSide that precede the transfer.
refundEthereumSide_require(s, t) ==
    IF s.initiator = ZeroAddress THEN "Swap not found"
    ELSE IF s.ethFilled THEN "ETH side already filled"
    ELSE IF s.ethRefunded THEN "ETH side already refunded"
    ELSE IF ~(t >= s.timelock) THEN "Timelock not expired"
    ELSE "ok"

refundEthereumSide(caller, swapId) ==
    LET s == crossChainSwap(fusionEscrow, swapId)
        req == refundEthereumSide_require(s, now)
        err == IF req = "ok" /\ ethBalance[FusionAddress] < s.ethAmount
               THEN "ETH refund failed" ELSE req
    IN  /\ lastCall' = Result("refundEthereumSide", err, 0)
        /\ IF err = "ok"
           THEN /\ fusionEscrow' = [fusionEscrow EXCEPT
                        !.crossChainSwaps[swapId].ethRefunded = TRUE]
                /\ ethBalance' = [ethBalance EXCEPT
                        ![FusionAddress] = @ - s.ethAmount,
                        ![s.initiator] = @ + s.ethAmount]
           ELSE UNCHANGED <<fusionEscrow, ethBalance>>

\* A swap id no initiateCrossChainSwap returned.
RandomSwapId == <<"random">>

otherVars == <<ethLocks, suiVars, coordVars, oneInchSwap, console, restVars>>

TxInitiateCrossChainSwap ==
    \E c \in SwapReceivers, h \in Hashlocks, tl \in {swapTimelockDuration},
       v \in Amounts, value \in Amounts :
        /\ Cardinality(SwapIdsOf(fusionEscrow)) < MaxEscrowSwaps
        /\ initiateCrossChainSwap(c, Keccak256(c), h, tl, v, value)
        /\ UNCHANGED <<now, otherVars, fusionSwap>>

TxFillEthereumSide ==
    \E c \in {"carol"}, s \in Secrets, recipient \in Addresses,
       swapId \in SwapIdsOf(fusionEscrow) \cup {RandomSwapId} :
        /\ fillEthereumSide(c, swapId, s, recipient)
        /\ UNCHANGED <<now, otherVars, fusionSwap>>

TxFillNonEVMSide ==
    \E c \in {"carol"}, s \in Secrets,
       swapId \in SwapIdsOf(fusionEscrow) \cup {RandomSwapId} :
        /\ fillNonEVMSide(c, swapId, s)
        /\ UNCHANGED <<now, otherVars, fusionSwap>>

TxRefundEthereumSide ==
    \E c \in {"carol"},
       swapId \in SwapIdsOf(fusionEscrow) \cup {RandomSwapId} :
        /\ refundEthereumSide(c, swapId)
        /\ UNCHANGED <<now, otherVars, fusionSwap>>

\* The instants the clock visits while the escrow is exercised: the last
\* second before the timelock of each swap and the timelock itself.
FusionInstants ==
    UNION {{fusionEscrow.crossChainSwaps[id].timelock - 1,
            fusionEscrow.crossChainSwaps[id].timelock} :
                id \in SwapIdsOf(fusionEscrow)}

FusionTick ==
    /\ \E t \in FusionInstants : t > now /\ t <= Horizon /\ now' = t
    /\ UNCHANGED <<chainVars, coordVars, integrationVars>>

(***************************************************************************)
(* Fusion+ AtomicSwap (examples/eth_sui_swap.ts, second class)             *)
(***************************************************************************)
IdleFusion ==
    [pc |-> "idle", secret |-> Undefined, hashlock |-> Undefined,
     swapId |-> Undefined, timelock |-> 0, suiRecipient |-> Undefined]

\* generateCrossChainSwapDetails: swapId is 32 random bytes.
generateCrossChainSwapDetails(secret, t) ==
    [secret |-> secret, hashlock |-> Sha256(secret),
     swapId |-> RandomSwapId, timelock |-> t + swapTimelockDuration]

\* Step 1: initiateCrossChainSwap; returns swapDetails.swapId.
FusionInitiate ==
    \E secret \in Secrets, suiRecipient \in {suiKeypairAddress} :
        LET g == generateCrossChainSwapDetails(secret, now)
        IN  /\ fusionSwap.pc = "idle"
            /\ now + swapTimelockDuration <= Horizon
            /\ initiateCrossChainSwap(ethWalletAddress,
                    Keccak256(suiRecipient), g.hashlock, g.timelock,
                    SwapAmount, SwapAmount)
            /\ fusionSwap' =
                    IF lastCall'.err = "ok"
                    THEN [IdleFusion EXCEPT
                            !.pc = "order", !.secret = g.secret,
                            !.hashlock = g.hashlock, !.swapId = g.swapId,
                            !.timelock = g.timelock,
                            !.suiRecipient = suiRecipient]
                    ELSE [IdleFusion EXCEPT !.pc = "failed"]
            /\ UNCHANGED <<now, otherVars>>

\* Step 2: createEthereumLimitOrder with a random orderId, maker and taker
\* both ethInitiatorAddress.
FusionCreateOrder ==
    LET orderId == "orderId"
        err == createAndFillOrder_require(fusionEscrow, orderId,
                    now + orderExpirationDuration,
                    ethWalletAddress, ethWalletAddress, now)
    IN  /\ fusionSwap.pc = "order"
        /\ lastCall' = Result("createAndFillOrder", err, 0)
        /\ IF err = "ok"
           THEN /\ fusionEscrow' = [fusionEscrow EXCEPT
                        !.processedOrders = @ \cup {orderId}]
                /\ fusionSwap' = [fusionSwap EXCEPT !.pc = "sui"]
           ELSE /\ fusionEscrow' = fusionEscrow
                /\ fusionSwap' = [fusionSwap EXCEPT !.pc = "failed"]
        /\ UNCHANGED <<now, ethVars, suiVars, coordVars, oneInchSwap, console,
                       restVars>>

\* Step 3: createSuiHTLC of this class transfers the coins to the receiver.
FusionSuiTransfer ==
    /\ fusionSwap.pc = "sui"
    /\ IF suiBalance[suiKeypairAddress] >= SwapAmount
       THEN /\ suiBalance' = [[suiBalance EXCEPT
                                ![suiKeypairAddress] = @ - SwapAmount]
                              EXCEPT ![fusionSwap.suiRecipient] =
                                        @ + SwapAmount]
            /\ fusionSwap' = [fusionSwap EXCEPT !.pc = "fill"]
       ELSE /\ suiBalance' = suiBalance
            /\ fusionSwap' = [fusionSwap EXCEPT !.pc = "failed"]
    /\ UNCHANGED <<now, ethVars, suiObjects, lastCall, coordVars,
                   fusionEscrow, oneInchSwap, console, restVars>>

\* Step 4: fillNonEVMSide with the mock secret of 32 zero bytes and the
\* local swapId; what it throws ends the swap.  fillEthereumSide follows
\* only when this call returns, which no swapId of the escrow allows.
FusionFillNonEVM ==
    /\ fusionSwap.pc = "fill"
    /\ fillNonEVMSide(ethWalletAddress, fusionSwap.swapId, ZeroBytes32)
    /\ fusionSwap' = [fusionSwap EXCEPT
            !.pc = IF lastCall'.err = "ok" THEN "fillEth" ELSE "failed"]
    /\ UNCHANGED <<now, otherVars>>

\* A request of steps 1 to 4 fails before it reaches the chain.
FusionThrows ==
    /\ fusionSwap.pc \in {"order", "sui", "fill"}
    /\ fusionSwap' = [fusionSwap EXCEPT !.pc = "failed"]
    /\ UNCHANGED <<now, chainVars, coordVars, fusionEscrow, oneInchSwap,
                   console, restVars>>

(***************************************************************************)
(* OneInchHTLCSwap (unnamed/part_007, second file)                         *)
(***************************************************************************)
IdleOneInch ==
    [htlcId |-> Undefined, secret |-> Undefined, hashlock |-> Undefined]

oneInchWalletAddress == "alice"

\* createHTLCWithOneInch with tokenAddress = AddressZero: htlcId and secret
\* are 32 random bytes each, the hashlock is ethers.utils.keccak256(secret)
\* and the timelock is `timelock` seconds from the clock read.
createHTLCWithOneInch ==
    \E htlcId \in EthIds, secret \in Secrets, receiver \in SwapReceivers,
       timelock \in Timelocks :
        /\ oneInchSwap = IdleOneInch
        /\ Fresh(secret)
        /\ now + timelock <= Horizon
        /\ createHTLC(oneInchWalletAddress, htlcId, receiver,
                      Keccak256(secret), now + timelock, SwapAmount)
        /\ oneInchSwap' =
                IF lastCall'.err = "ok"
                THEN [htlcId |-> htlcId, secret |-> secret,
                      hashlock |-> Keccak256(secret)]
                ELSE [IdleOneInch EXCEPT !.secret = secret]
        /\ console' = console \cup {secret}
        /\ UNCHANGED <<now, suiVars, coordVars, fusionEscrow, fusionSwap,
                       restVars>>

(***************************************************************************)
(* Lost responses                                                          *)
(***************************************************************************)
\* create-sui-htlc whose last signAndExecuteTransaction was executed by the
\* chain while its response did not arrive: the request rejects with
\* 'fetch failed', createSuiHTLC throws, swapState.suiHtlcResult stays unset.
createSuiHTLCStep_lost ==
    /\ createSuiHTLCStep_ready
    /\ Len(suiObjects) < MaxCliObjects
    /\ create_htlc(cliSuiAddress, swapState.htlcId, swapState.toAddress,
                   swapState.hashlock, swapState.suiTimelock,
                   swapState.amount)
    /\ cli' = [cli EXCEPT !.out = "fetch failed"]
    /\ UNCHANGED <<now, ethVars, swap, swapState, integrationVars>>

\* A request of createEthereumHTLC or claimEthereumHTLC rejects with a
\* network error before the transaction is mined.  Neither method catches
\* anything: the error reaches the catch of performETHtoSUISwap.
SwapEthTransportError ==
    /\ swap.pc \in {"createEth", "claimEth"}
    /\ lastCall' = Result(IF swap.pc = "createEth"
                          THEN "createHTLC" ELSE "claimHTLC",
                          "TransportError", 0)
    /\ swap' = [swap EXCEPT !.pc = "failed"]
    /\ UNCHANGED <<now, ethVars, suiVars, swapState, cli, integrationVars>>

(***************************************************************************)
(* A second swap on a published hashlock                                   *)
(***************************************************************************)
\* The hashlocks of the locks on either chain: what every account can read.
PublishedHashlocks ==
    {ethLocks[id].hashlock : id \in {i \in EthIds : ethLocks[i].sender # ZeroAddress}}
        \cup {suiObjects[o].hashlock : o \in SuiIds}

\* An account that runs no coordinator opens a swap of its own on Sui, under
\* its own htlc_id, with a hashlock it read from a chain.
TxCopyHashlock ==
    \E h \in PublishedHashlocks, tl \in Timelocks :
        /\ \A o \in SuiIds : suiObjects[o].sender # "carol"
        /\ create_htlc("carol", "h2", "bob", h, tl, SwapAmount)
        /\ UNCHANGED <<now, ethVars, coordVars, integrationVars>>

(***************************************************************************)
(* AtomicSwapCLI.startCLI: the readline loop (unnamed/part_009)            *)
(*                                                                         *)
(* rl.on('line', async input => { await processCommand(input); ... })      *)
(* calls the handler for every line as it arrives; a handler that reaches  *)
(* an await is suspended and the next line is handled meanwhile.           *)
(***************************************************************************)
\* The handlers that can be suspended at the same time.
MaxPending == 2

RemoveAt(seq, i) == SubSeq(seq, 1, i - 1) \o SubSeq(seq, i + 1, Len(seq))

\* 'create-sui-htlc' is read: createSuiHTLCStep checks swapState, evaluates
\* the arguments of createSuiHTLC and is suspended at its await.
processCommand_createSuiHTLC ==
    /\ createSuiHTLCStep_ready
    /\ Len(pending) < MaxPending
    /\ pending' = Append(pending,
            [command |-> "create-sui-htlc", htlcId |-> swapState.htlcId,
             receiver |-> swapState.toAddress, hashlock |-> swapState.hashlock,
             timelock |-> swapState.suiTimelock, amount |-> swapState.amount,
             secret |-> Undefined, object |-> 0])
    /\ UNCHANGED <<now, chainVars, coordVars, fusionEscrow, fusionSwap,
                   oneInchSwap, console, limitOrderEscrow, inchVars>>

\* createSuiHTLC settles: create_htlc was executed and its result is
\* written to the swapState of that moment, or the call threw.
createSuiHTLCStep_resumed ==
    \E i \in 1..Len(pending) :
        LET h == pending[i]
        IN  /\ h.command = "create-sui-htlc"
            /\ Len(suiObjects) < MaxCliObjects
            /\ pending' = RemoveAt(pending, i)
            /\ \/ /\ create_htlc(cliSuiAddress, h.htlcId, h.receiver,
                                 h.hashlock, h.timelock, h.amount)
                  /\ swapState' = [swapState EXCEPT
                                      !.suiHtlcResult = Len(suiObjects')]
                  /\ cli' = [cli EXCEPT !.out = "ok", !.waited = FALSE]
                  /\ UNCHANGED <<now, ethVars, swap, fusionEscrow,
                                 fusionSwap, oneInchSwap, console,
                                 limitOrderEscrow, inchVars>>
               \/ /\ cli' = [cli EXCEPT !.out = "call failed"]
                  /\ UNCHANGED <<now, chainVars, swap, swapState,
                                 fusionEscrow, fusionSwap, oneInchSwap,
                                 console, limitOrderEscrow, inchVars>>

\* 'claim-sui-htlc' is read: claimSuiHTLCStep checks swapState, evaluates
\* the arguments of claimSuiHTLC and is suspended at its await.
processCommand_claimSuiHTLC ==
    /\ claimSuiHTLCStep_ready
    /\ Len(pending) < MaxPending
    /\ pending' = Append(pending,
            [command |-> "claim-sui-htlc", htlcId |-> swapState.htlcId,
             receiver |-> Undefined, hashlock |-> swapState.hashlock,
             timelock |-> 0, amount |-> 0,
             secret |-> swapState.secret,
             object |-> swapState.suiHtlcResult])
    /\ UNCHANGED <<now, chainVars, coordVars, fusionEscrow, fusionSwap,
                   oneInchSwap, console, limitOrderEscrow, inchVars>>

\* claimSuiHTLC settles: claim_with_secret was executed and its result is
\* written to the swapState of that moment, or the call threw.
claimSuiHTLCStep_resumed ==
    \E i \in 1..Len(pending) :
        LET h == pending[i]
        IN  /\ h.command = "claim-sui-htlc"
            /\ pending' = RemoveAt(pending, i)
            /\ \/ /\ claim_with_secret(cliSuiAddress, h.object, h.secret)
                  /\ IF lastCall'.code = 0
                     THEN /\ swapState' = [swapState EXCEPT
                                              !.suiClaimResult = "result"]
                          /\ cli' = [cli EXCEPT !.out = "ok"]
                     ELSE /\ swapState' = swapState
                          /\ cli' = [cli EXCEPT !.out = "call failed"]
                  /\ UNCHANGED <<now, ethVars, swap, fusionEscrow,
                                 fusionSwap, oneInchSwap, console,
                                 limitOrderEscrow, inchVars>>
               \/ /\ cli' = [cli EXCEPT !.out = "call failed"]
                  /\ UNCHANGED <<now, chainVars, swap, swapState,
                                 fusionEscrow, fusionSwap, oneInchSwap,
                                 console, limitOrderEscrow, inchVars>>

(***************************************************************************)
(* LimitOrderEscrow, the contract with hashlock and timelock               *)
(* (contracts/ethereum/LimitOrderEscrow.sol, second contract)              *)
(*                                                                         *)
(* Orders whose makerAsset is address(0), that is ETH.  The 1inch protocol *)
(* called by fillAtomicSwapOrder is another contract: its fillOrderArgs    *)
(* reverts or returns any making amount.                                   *)
(***************************************************************************)
OrderIds == {"o1"}

\* The value of atomicSwapOrders[orderId] and atomicSwapExtendedData[orderId]
\* before createAtomicSwapOrder.
NoAtomicSwapOrder ==
    [hashlock |-> ZeroBytes32, timelock |-> 0, maker |-> ZeroAddress,
     taker |-> ZeroAddress, makerAsset |-> ZeroAddress, makerAmount |-> 0,
     takerAmount |-> 0, filled |-> FALSE, refunded |-> FALSE,
     secret |-> ZeroBytes32]

\* The contract as its deployer leaves it: Ownable(msg.sender).
EmptyLimitOrderEscrow ==
    [atomicSwapOrders |-> [o \in OrderIds |-> NoAtomicSwapOrder],
     authorizedRelayers |-> {},
     owner |-> "alice"]

\* What the last call returned, and who made it.
ResultOf(fn, err, caller) == [fn |-> fn, err |-> err, code |-> 0, caller |-> caller]

createAtomicSwapOrder_require(order, taker, makerAmount, takerAmount, timelock, value, t) ==
    IF order.maker # ZeroAddress THEN "Order exists"
    ELSE IF ~(timelock > t) THEN "Invalid timelock"
    ELSE IF taker = ZeroAddress THEN "Invalid taker"
    ELSE IF ~(makerAmount > 0 /\ takerAmount > 0) THEN "Invalid amounts"
    ELSE IF value # makerAmount THEN "Incorrect ETH amount"
    ELSE "ok"

createAtomicSwapOrder(caller, orderId, taker, makerAmount, takerAmount, hashlock, timelock, value) ==
    LET err == createAtomicSwapOrder_require(
                    limitOrderEscrow.atomicSwapOrders[orderId], taker,
                    makerAmount, takerAmount, timelock, value, now)
    IN  /\ ethBalance[caller] >= value
        /\ lastCall' = ResultOf("createAtomicSwapOrder", err, caller)
        /\ IF err = "ok"
           THEN /\ limitOrderEscrow' = [limitOrderEscrow EXCEPT
                        !.atomicSwapOrders[orderId] =
                            [hashlock |-> hashlock, timelock |-> timelock,
                             maker |-> caller, taker |-> taker,
                             makerAsset |-> ZeroAddress,
                             makerAmount |-> makerAmount,
                             takerAmount |-> takerAmount,
                             filled |-> FALSE, refunded |-> FALSE,
                             secret |-> ZeroBytes32]]
                /\ ethBalance' = [ethBalance EXCEPT
                        ![caller] = @ - value,
                        ![LimitOrderAddress] = @ + value]
           ELSE UNCHANGED <<limitOrderEscrow, ethBalance>>

\* fillAtomicSwapOrder without the onlyAuthorizedRelayer modifier.
fillAtomicSwapOrder_require_noModifier(escrow, order, caller, secret, t) ==
    IF order.maker = ZeroAddress THEN "Order not found"
    ELSE IF order.filled THEN "Order already filled"
    ELSE IF order.refunded THEN "Order refunded"
    ELSE IF ~(t < order.timelock) THEN "Order expired"
    ELSE IF Sha256(secret) # order.hashlock THEN "Invalid secret"
    ELSE IF ~(caller = order.taker \/ caller \in escrow.authorizedRelayers)
         THEN "Not authorized taker"
    ELSE "ok"

\* The modifier onlyAuthorizedRelayer and the requires of
\* fillAtomicSwapOrder, in the order they are evaluated.
fillAtomicSwapOrder_require(escrow, order, caller, secret, t) ==
    IF caller \notin escrow.authorizedRelayers THEN "Not authorized relayer"
    ELSE IF order.maker = ZeroAddress THEN "Order not found"
    ELSE IF order.filled THEN "Order already filled"
    ELSE IF order.refunded THEN "Order refunded"
    ELSE IF ~(t < order.timelock) THEN "Order expired"
    ELSE IF Sha256(secret) # order.hashlock THEN "Invalid secret"
    ELSE IF ~(caller = order.taker \/ caller \in escrow.authorizedRelayers)
         THEN "Not authorized taker"
    ELSE "ok"

\* What limitOrderProtocol.fillOrderArgs may do: revert, or return an
\* actual making amount.
FillOrderArgsOutcomes ==
    {[reverts |-> TRUE, actualMakingAmount |-> 0]}
        \cup {[reverts |-> FALSE, actualMakingAmount |-> a] :
                    a \in 0..(SwapAmount + 1)}

\* fillAtomicSwapOrder; _transferAssets sends the actual making amount to
\* the taker.
fillAtomicSwapOrder(caller, orderId, secret, outcome) ==
    LET order == limitOrderEscrow.atomicSwapOrders[orderId]
        req == fillAtomicSwapOrder_require(limitOrderEscrow, order, caller,
                                           secret, now)
        err == IF req # "ok" THEN req
               ELSE IF outcome.reverts THEN "fillOrderArgs reverted"
               ELSE IF ethBalance[LimitOrderAddress] < outcome.actualMakingAmount
                    THEN "ETH transfer failed"
               ELSE "ok"
    IN  /\ lastCall' = ResultOf("fillAtomicSwapOrder", err, caller)
        /\ IF err = "ok"
           THEN /\ limitOrderEscrow' = [limitOrderEscrow EXCEPT
                        !.atomicSwapOrders[orderId].secret = secret,
                        !.atomicSwapOrders[orderId].filled = TRUE]
                /\ ethBalance' = [[ethBalance EXCEPT
                        ![LimitOrderAddress] = @ - outcome.actualMakingAmount]
                            EXCEPT ![order.taker] = @ + outcome.actualMakingAmount]
           ELSE UNCHANGED <<limitOrderEscrow, ethBalance>>

\* refundAtomicSwapOrder without the "Order already filled" check.
refundAtomicSwapOrder_require_noFilledCheck(order, caller, t) ==
    IF ~(caller = order.maker \/ caller = order.taker) THEN "Not order party"
    ELSE IF order.refunded THEN "Order already refunded"
    ELSE IF ~(t >= order.timelock) THEN "Timelock not expired"
    ELSE "ok"

\* The modifier onlyOrderParties and the requires of refundAtomicSwapOrder.
refundAtomicSwapOrder_require(order, caller, t) ==
    IF ~(caller = order.maker \/ caller = order.taker) THEN "Not order party"
    ELSE IF order.filled THEN "Order already filled"
    ELSE IF order.refunded THEN "Order already refunded"
    ELSE IF ~(t >= order.timelock) THEN "Timelock not expired"
    ELSE "ok"

refundAtomicSwapOrder(caller, orderId) ==
    LET order == limitOrderEscrow.atomicSwapOrders[orderId]
        req == refundAtomicSwapOrder_require(order, caller, now)
        err == IF req = "ok" /\ ethBalance[LimitOrderAddress] < order.makerAmount
               THEN "ETH transfer failed" ELSE req
    IN  /\ lastCall' = ResultOf("refundAtomicSwapOrder", err, caller)
        /\ IF err = "ok"
           THEN /\ limitOrderEscrow' = [limitOrderEscrow EXCEPT
                        !.atomicSwapOrders[orderId].refunded = TRUE]
                /\ ethBalance' = [[ethBalance EXCEPT
                        ![LimitOrderAddress] = @ - order.makerAmount]
                                  EXCEPT ![order.maker] = @ + order.makerAmount]
           ELSE UNCHANGED <<limitOrderEscrow, ethBalance>>

\* The modifier onlyOwner of Ownable.
onlyOwner(escrow, caller) ==
    IF caller # escrow.owner THEN "OwnableUnauthorizedAccount" ELSE "ok"

authorizeRelayer(caller, relayer) ==
    LET own == onlyOwner(limitOrderEscrow, caller)
        err == IF own # "ok" THEN own
               ELSE IF relayer = ZeroAddress THEN "Invalid relayer address"
               ELSE "ok"
    IN  /\ lastCall' = ResultOf("authorizeRelayer", err, caller)
        /\ limitOrderEscrow' =
                IF err = "ok"
                THEN [limitOrderEscrow EXCEPT
                        !.authorizedRelayers = @ \cup {relayer}]
                ELSE limitOrderEscrow

revokeRelayer(caller, relayer) ==
    LET err == onlyOwner(limitOrderEscrow, caller)
    IN  /\ lastCall' = ResultOf("revokeRelayer", err, caller)
        /\ limitOrderEscrow' =
                IF err = "ok"
                THEN [limitOrderEscrow EXCEPT
                        !.authorizedRelayers = @ \ {relayer}]
                ELSE limitOrderEscrow

\* transferOwnership, inherited from Ownable.
transferOwnership(caller, newOwner) ==
    LET own == onlyOwner(limitOrderEscrow, caller)
        err == IF own # "ok" THEN own
               ELSE IF newOwner = ZeroAddress THEN "OwnableInvalidOwner"
               ELSE "ok"
    IN  /\ lastCall' = ResultOf("transferOwnership", err, caller)
        /\ limitOrderEscrow' =
                IF err = "ok"
                THEN [limitOrderEscrow EXCEPT !.owner = newOwner]
                ELSE limitOrderEscrow

emergencyRecover(caller, amount) ==
    LET own == onlyOwner(limitOrderEscrow, caller)
        err == IF own # "ok" THEN own
               ELSE IF ~(amount > 0) THEN "Invalid amount"
               ELSE IF ethBalance[LimitOrderAddress] < amount
                    THEN "ETH transfer failed"
               ELSE "ok"
    IN  /\ lastCall' = ResultOf("emergencyRecover", err, caller)
        /\ ethBalance' =
                IF err = "ok"
                THEN [[ethBalance EXCEPT ![LimitOrderAddress] = @ - amount]
                      EXCEPT ![limitOrderEscrow.owner] = @ + amount]
                ELSE ethBalance

\* Everything but the Ethereum balances, the last call and the escrow.
escrowFrame == <<now, ethLocks, suiVars, coordVars, fusionEscrow, fusionSwap, oneInchSwap, console, pending, inchVars>>

TxCreateAtomicSwapOrder ==
    \E c \in {"alice", "carol"}, taker \in {"bob"}, h \in Hashlocks,
       tl \in Timelocks, value \in Amounts :
        /\ createAtomicSwapOrder(c, "o1", taker, SwapAmount, SwapAmount, h,
                                 tl, value)
        /\ UNCHANGED escrowFrame

TxFillAtomicSwapOrder ==
    \E c \in Addresses, s \in Secrets, outcome \in FillOrderArgsOutcomes :
        /\ fillAtomicSwapOrder(c, "o1", s, outcome)
        /\ UNCHANGED escrowFrame

TxRefundAtomicSwapOrder ==
    \E c \in Addresses :
        /\ refundAtomicSwapOrder(c, "o1")
        /\ UNCHANGED escrowFrame

TxAuthorizeRelayer ==
    \E c \in {"alice", "carol"}, relayer \in {"bob", "carol"} :
        /\ authorizeRelayer(c, relayer)
        /\ UNCHANGED <<escrowFrame, ethBalance>>

TxRevokeRelayer ==
    \E c \in {"alice", "carol"}, relayer \in {"bob", "carol"} :
        /\ revokeRelayer(c, relayer)
        /\ UNCHANGED <<escrowFrame, ethBalance>>

TxTransferOwnership ==
    \E c \in {"alice", "carol"}, newOwner \in {"alice", "carol"} :
        /\ transferOwnership(c, newOwner)
        /\ UNCHANGED <<escrowFrame, ethBalance>>

TxEmergencyRecover ==
    \E c \in {"alice", "carol"} :
        /\ emergencyRecover(c, SwapAmount)
        /\ UNCHANGED <<escrowFrame, limitOrderEscrow>>

(***************************************************************************)
(* HTLC with 1inch integration (the Solidity contract in                   *)
(* contracts/sui/sources/htlc.move) and OneInchIntegration                 *)
(***************************************************************************)
MaxTokens == 2
InchIds == {"k1", "k2"}
InchEthIds == {"k1"}
Tokens == {"TKA", "TKB"}
\* The deployed OneInchIntegration, whose htlcContract is this HTLC, and
\* any other contract an account may pass to setOneInchIntegration.
IntegrationAddress == "INTEGRATION"
RogueAddress == "ROGUE"
ProtocolAddress == "PROTOCOL"
TokenHolders == {"alice", "bob", OneInchHTLCAddress, IntegrationAddress, RogueAddress}
Spenders == {OneInchHTLCAddress, IntegrationAddress, ProtocolAddress}
InchTimelocks == {suiTimelockDuration}

EmptyInchHTLC ==
    [locks |-> [id \in InchIds |-> EmptyLock],
     oneInchIntegration |-> ZeroAddress]

\* Two ERC20 tokens; alice holds MaxTokens of each, nobody has approved
\* anything.
InitErc20 ==
    [balance |-> [tok \in Tokens |-> [a \in TokenHolders |->
                        IF a = "alice" THEN MaxTokens ELSE 0]],
     allowance |-> [tok \in Tokens |-> [a \in TokenHolders |->
                        [s \in Spenders |-> 0]]]]

\* IERC20 of a standard token (OpenZeppelin ERC20): approve sets the
\* allowance, transfer moves exactly the amount and reverts when the holder
\* has less, transferFrom also spends the allowance of the caller.
approve(ledger, tok, owner, spender, amt) ==
    [ledger EXCEPT !.allowance[tok][owner][spender] = amt]

transfer_revert(ledger, tok, from, amt) ==
    IF ledger.balance[tok][from] < amt THEN "ERC20InsufficientBalance"
    ELSE "ok"

transfer(ledger, tok, from, to, amt) ==
    [ledger EXCEPT !.balance[tok] =
        [[@ EXCEPT ![from] = @ - amt] EXCEPT ![to] = @ + amt]]

transferFrom_revert(ledger, tok, owner, spender, amt) ==
    IF ledger.allowance[tok][owner][spender] < amt
    THEN "ERC20InsufficientAllowance"
    ELSE IF ledger.balance[tok][owner] < amt THEN "ERC20InsufficientBalance"
    ELSE "ok"

transferFrom(ledger, tok, owner, spender, to, amt) ==
    LET spent == [ledger EXCEPT !.allowance[tok][owner][spender] = @ - amt]
    IN  transfer(spent, tok, owner, to, amt)

NoOrder ==
    [maker |-> ZeroAddress, makerAsset |-> ZeroAddress,
     takerAsset |-> ZeroAddress]

\* What the last call to this contract left behind: a reverted call only
\* its error, a successful one the arguments its event reports
\* (HTLCCreated, HTLCClaimed, HTLCRefunded, OrderExecuted) and the event of
\* the integration.
InchResult(fn, err, id, order, makingAmount, event) ==
    IF err = "ok"
    THEN [fn |-> fn, err |-> err, code |-> 0, id |-> id, order |-> order,
          makingAmount |-> makingAmount, event |-> event]
    ELSE [fn |-> fn, err |-> err, code |-> 0, id |-> ZeroBytes32,
          order |-> NoOrder, makingAmount |-> 0, event |-> "none"]

inchFrame == <<now, ethLocks, suiVars, coordVars, fusionEscrow, fusionSwap, oneInchSwap, console, pending, limitOrderEscrow>>

setOneInchIntegration(caller, integration) ==
    LET err == IF integration = ZeroAddress
               THEN "Invalid 1inch integration address" ELSE "ok"
    IN  /\ lastCall' = InchResult("setOneInchIntegration", err,
                                  ZeroBytes32, NoOrder, 0, "none")
        /\ inchHTLC' = IF err = "ok"
                       THEN [inchHTLC EXCEPT !.oneInchIntegration = integration]
                       ELSE inchHTLC
        /\ UNCHANGED <<erc20, ethBalance, inchFrame>>

\* createHTLC without the "HTLC already exists" check.
inch_createHTLC_require_overwrites(lock, receiver, timelock, token, value, ledger, caller, t) ==
    IF ~(timelock > t) THEN "Timelock must be in the future"
    ELSE IF receiver = ZeroAddress THEN "Invalid receiver address"
    ELSE IF token = ZeroAddress
         THEN (IF ~(value > 0) THEN "Amount must be greater than 0" ELSE "ok")
    ELSE IF ~(ledger.allowance[token][caller][OneInchHTLCAddress] > 0)
         THEN "Token allowance must be greater than 0"
    ELSE transferFrom_revert(ledger, token, caller, OneInchHTLCAddress,
                ledger.allowance[token][caller][OneInchHTLCAddress])

\* The require statements of createHTLC and the revert of safeTransferFrom,
\* in order.
inch_createHTLC_require(lock, receiver, timelock, token, value, ledger, caller, t) ==
    IF ~(timelock > t) THEN "Timelock must be in the future"
    ELSE IF receiver = ZeroAddress THEN "Invalid receiver address"
    ELSE IF lock.sender # ZeroAddress THEN "HTLC already exists"
    ELSE IF token = ZeroAddress
         THEN (IF ~(value > 0) THEN "Amount must be greater than 0" ELSE "ok")
    ELSE IF ~(ledger.allowance[token][caller][OneInchHTLCAddress] > 0)
         THEN "Token allowance must be greater than 0"
    ELSE transferFrom_revert(ledger, token, caller, OneInchHTLCAddress,
                ledger.allowance[token][caller][OneInchHTLCAddress])

\* createHTLC is payable: msg.value enters the contract in both branches,
\* and only the ETH branch reads it.
inch_createHTLC(caller, id, receiver, hashlock, timelock, token, value) ==
    LET err == inch_createHTLC_require(inchHTLC.locks[id], receiver, timelock,
                                       token, value, erc20, caller, now)
        amount == IF token = ZeroAddress THEN value
                  ELSE erc20.allowance[token][caller][OneInchHTLCAddress]
    IN  /\ ethBalance[caller] >= value
        /\ lastCall' = InchResult("createHTLC", err, id, NoOrder,
                                  0, "none")
        /\ IF err = "ok"
           THEN /\ inchHTLC' = [inchHTLC EXCEPT !.locks[id] =
                        [htlc_id |-> id, hashlock |-> hashlock,
                         timelock |-> timelock, sender |-> caller,
                         receiver |-> receiver, amount |-> amount,
                         secret |-> ZeroBytes32, withdrawn |-> FALSE,
                         refunded |-> FALSE, token |-> token]]
                /\ ethBalance' = [ethBalance EXCEPT
                        ![caller] = @ - value,
                        ![OneInchHTLCAddress] = @ + value]
                /\ erc20' = IF token = ZeroAddress THEN erc20
                            ELSE transferFrom(erc20, token, caller,
                                    OneInchHTLCAddress, OneInchHTLCAddress,
                                    amount)
           ELSE UNCHANGED <<inchHTLC, ethBalance, erc20>>
        /\ UNCHANGED inchFrame

\* The payout of claimHTLC and refundHTLC: ETH by call, tokens by
\* safeTransfer; either reverts when the contract holds less than the
\* amount of the lock.
payout_revert(lock) ==
    IF lock.token = ZeroAddress
    THEN (IF ethBalance[OneInchHTLCAddress] < lock.amount
          THEN "ETH transfer failed" ELSE "ok")
    ELSE transfer_revert(erc20, lock.token, OneInchHTLCAddress, lock.amount)

payout(lock, to) ==
    IF lock.token = ZeroAddress
    THEN /\ ethBalance' = [ethBalance EXCEPT
                ![OneInchHTLCAddress] = @ - lock.amount,
                ![to] = @ + lock.amount]
         /\ UNCHANGED erc20
    ELSE /\ erc20' = transfer(erc20, lock.token, OneInchHTLCAddress, to,
                              lock.amount)
         /\ UNCHANGED ethBalance

inch_claimHTLC(caller, id, secret) ==
    LET lock == inchHTLC.locks[id]
        req == claimHTLC_require(lock, caller, secret, now)
        err == IF req = "ok" THEN payout_revert(lock) ELSE req
    IN  /\ lastCall' = InchResult("claimHTLC", err, id, NoOrder,
                                  0, "none")
        /\ IF err = "ok"
           THEN /\ inchHTLC' = [inchHTLC EXCEPT !.locks[id].secret = secret,
                                                !.locks[id].withdrawn = TRUE]
                /\ payout(lock, lock.receiver)
           ELSE UNCHANGED <<inchHTLC, ethBalance, erc20>>
        /\ UNCHANGED inchFrame

inch_refundHTLC(caller, id) ==
    LET lock == inchHTLC.locks[id]
        req == refundHTLC_require(lock, caller, now)
        err == IF req = "ok" THEN payout_revert(lock) ELSE req
    IN  /\ lastCall' = InchResult("refundHTLC", err, id, NoOrder,
                                  0, "none")
        /\ IF err = "ok"
           THEN /\ inchHTLC' = [inchHTLC EXCEPT !.locks[id].refunded = TRUE]
                /\ payout(lock, lock.sender)
           ELSE UNCHANGED <<inchHTLC, ethBalance, erc20>>
        /\ UNCHANGED inchFrame

\* modifier onlyInvolvedParties
onlyInvolvedParties(lock, caller) ==
    caller = lock.sender \/ caller = lock.receiver

\* _validateOrderExecution: neither the amount of the order nor the
\* timelock is looked at.
validateOrderExecution(lock, order, integration) ==
    IF lock.withdrawn THEN "Already withdrawn"
    ELSE IF lock.refunded THEN "Already refunded"
    ELSE IF integration = ZeroAddress THEN "1inch integration not set"
    ELSE IF lock.token # order.makerAsset THEN "Token mismatch"
    ELSE "ok"

\* OneInchIntegration._validateOrder
validateOrder(order, makingAmount, takingAmount) ==
    IF order.maker = ZeroAddress THEN "Invalid maker"
    ELSE IF order.makerAsset = ZeroAddress THEN "Invalid maker asset"
    ELSE IF order.takerAsset = ZeroAddress THEN "Invalid taker asset"
    ELSE IF ~(makingAmount > 0) THEN "Invalid making amount"
    ELSE IF ~(takingAmount > 0) THEN "Invalid taking amount"
    ELSE "ok"

\* OneInchIntegration.fillOrderForHTLC and fillOrderWithPermit, called by the
\* HTLC after it has pushed makingAmount to the integration: the ledger,
\* the error and the event they end with.  _transferTokens pulls
\* makingAmount from the HTLC once more, by transferFrom.  `ext` is what the
\* 1inch protocol does: whether its fillOrder call succeeds and how much of
\* the taker asset it delivers for the maker asset it takes.
fillOrderForHTLC(ledger, order, makingAmount, takingAmount, thresholdAmount, ext) ==
    LET req == validateOrder(order, makingAmount, takingAmount)
        pull == transferFrom_revert(ledger, order.makerAsset,
                    OneInchHTLCAddress, IntegrationAddress, makingAmount)
        pulled == approve(transferFrom(ledger, order.makerAsset,
                              OneInchHTLCAddress, IntegrationAddress,
                              IntegrationAddress, makingAmount),
                          order.makerAsset, IntegrationAddress,
                          ProtocolAddress, makingAmount)
        returned == transfer(pulled, order.makerAsset, IntegrationAddress,
                             OneInchHTLCAddress, makingAmount)
        filled == [pulled EXCEPT
                     !.allowance[order.makerAsset][IntegrationAddress][ProtocolAddress] = 0,
                     !.balance[order.makerAsset][IntegrationAddress] = @ - makingAmount,
                     !.balance[order.takerAsset][IntegrationAddress] = @ + ext.out]
        receivedAmount == filled.balance[order.takerAsset][IntegrationAddress]
    IN  IF req # "ok" THEN [err |-> req, event |-> "none", ledger |-> ledger]
        ELSE IF pull # "ok"
             THEN [err |-> pull, event |-> "none", ledger |-> ledger]
        ELSE IF ~ext.success
             THEN [err |-> "ok", event |-> "OrderFillFailed",
                   ledger |-> returned]
        ELSE IF ~(receivedAmount >= thresholdAmount)
             THEN [err |-> "Insufficient output amount", event |-> "none",
                   ledger |-> ledger]
        ELSE [err |-> "ok", event |-> "OrderFilled",
              ledger |-> transfer(filled, order.takerAsset,
                                  IntegrationAddress, OneInchHTLCAddress,
                                  receivedAmount)]

\* The same call when oneInchIntegration is another contract: it reverts,
\* or returns after sending the HTLC as much of the taker asset as ext.out,
\* if it has it.
otherFillOrderForHTLC(ledger, order, makingAmount, ext) ==
    LET out == IF ledger.balance[order.takerAsset][RogueAddress] >= ext.out
               THEN ext.out ELSE 0
    IN  IF ~ext.success
        THEN [err |-> "reverted", event |-> "none", ledger |-> ledger]
        ELSE [err |-> "ok", event |-> "none",
              ledger |-> transfer(ledger, order.takerAsset, RogueAddress,
                                  OneInchHTLCAddress, out)]

\* _updateLockAfterOrder: the amount becomes the whole balance the contract
\* has of the taker asset.
updateLockAfterOrder(lock, order, ledger) ==
    [lock EXCEPT !.token = order.takerAsset,
                 !.amount = ledger.balance[order.takerAsset][OneInchHTLCAddress]]

\* executeOneInchOrder and executeOneInchOrderWithPermit (_executeOrderInternal).
executeOneInchOrder(caller, id, order, makingAmount, takingAmount, thresholdAmount, ext) ==
    LET lock == inchHTLC.locks[id]
        integration == inchHTLC.oneInchIntegration
        req == IF ~onlyInvolvedParties(lock, caller) THEN "Not authorized"
               ELSE validateOrderExecution(lock, order, integration)
        push == transfer_revert(erc20, lock.token, OneInchHTLCAddress,
                                makingAmount)
        pushed == transfer(erc20, lock.token, OneInchHTLCAddress,
                           integration, makingAmount)
        fill == IF integration = IntegrationAddress
                THEN fillOrderForHTLC(pushed, order, makingAmount,
                                      takingAmount, thresholdAmount, ext)
                ELSE otherFillOrderForHTLC(pushed, order, makingAmount, ext)
        err == IF req # "ok" THEN req
               ELSE IF push # "ok" THEN push
               ELSE fill.err
    IN  /\ lastCall' = InchResult("executeOneInchOrder", err, id,
                order, makingAmount,
                IF err = "ok" THEN fill.event ELSE "none")
        /\ IF err = "ok"
           THEN /\ erc20' = fill.ledger
                /\ inchHTLC' = [inchHTLC EXCEPT !.locks[id] =
                        updateLockAfterOrder(lock, order, fill.ledger)]
           ELSE UNCHANGED <<inchHTLC, erc20>>
        /\ UNCHANGED <<ethBalance, inchFrame>>

\* OneInchIntegration.canFillOrder
canFillOrder(ledger, order, makingAmount) ==
    /\ ledger.balance[order.makerAsset][order.maker] >= makingAmount
    /\ ledger.allowance[order.makerAsset][order.maker][ProtocolAddress] >= makingAmount

\* canExecuteOrder; `fillable` is what oneInchIntegration.canFillOrder
\* returns.
canExecuteOrder(lock, order, makingAmount, integration, fillable) ==
    IF \/ lock.withdrawn
       \/ lock.refunded
       \/ integration = ZeroAddress
       \/ lock.token # order.makerAsset
       \/ lock.amount < makingAmount
    THEN FALSE
    ELSE fillable

Orders == {o \in [maker : {"alice"}, makerAsset : Tokens, takerAsset : Tokens] : o.makerAsset # o.takerAsset}
ExtOutcomes == [success : BOOLEAN, out : {SwapAmount}]

TxApprove ==
    \E tok \in Tokens :
        /\ erc20' = approve(erc20, tok, "alice", OneInchHTLCAddress, SwapAmount)
        /\ lastCall' = InchResult("approve", "ok", ZeroBytes32,
                                  NoOrder, 0, "none")
        /\ UNCHANGED <<inchHTLC, ethBalance, inchFrame>>

TxSetOneInchIntegration ==
    \E caller \in {"carol"}, a \in {ZeroAddress, IntegrationAddress, RogueAddress} :
        setOneInchIntegration(caller, a)

\* createHTLC for an ETH lock.
TxInchCreateHTLC ==
    \E id \in InchEthIds, r \in {"bob", ZeroAddress}, tl \in InchTimelocks, v \in Amounts :
        inch_createHTLC("alice", id, r, Sha256("s1"), tl, ZeroAddress, v)

TxInchCreateHTLCToken ==
    \E id \in InchIds, r \in {"bob", ZeroAddress}, tl \in InchTimelocks, tok \in Tokens :
        inch_createHTLC("alice", id, r, Sha256("s1"), tl, tok, 0)

TxInchClaimHTLC ==
    \E caller \in {"alice", "bob"}, id \in InchIds, s \in Secrets :
        inch_claimHTLC(caller, id, s)

TxInchRefundHTLC ==
    \E caller \in {"alice", "bob"}, id \in InchIds :
        inch_refundHTLC(caller, id)

\* Time passes to the timelock of the locks.
InchTick ==
    /\ \E t \in InchTimelocks : t > now /\ now' = t
    /\ UNCHANGED <<chainVars, coordVars, integrationVars>>

TxExecuteOneInchOrder ==
    \E caller \in {"alice", "carol"}, id \in InchIds, order \in Orders, m \in 1..MaxTokens, ext \in ExtOutcomes :
        executeOneInchOrder(caller, id, order, m, 1, 1, ext)

(***************************************************************************)
(* Initial state and specifications                                        *)
(***************************************************************************)
Init ==
    /\ now = 0
    /\ ethLocks = [id \in EthIds |-> EmptyLock]
    /\ ethBalance = [a \in EthAccounts |->
                        IF a \in Addresses THEN InitBalance ELSE 0]
    /\ suiObjects = <<>>
    /\ suiBalance = [a \in Addresses |-> InitBalance]
    /\ lastCall = Result("none", "ok", 0)
    /\ swap = IdleSwap
    /\ swapState = EmptySwapState
    /\ cli = IdleCli
    /\ fusionEscrow = EmptyEscrow
    /\ fusionSwap = IdleFusion
    /\ oneInchSwap = IdleOneInch
    /\ console = {}
    /\ pending = <<>>
    /\ limitOrderEscrow = EmptyLimitOrderEscrow
    /\ inchHTLC = EmptyInchHTLC
    /\ erc20 = InitErc20

\* The two contracts under transactions from any account at any time.
NextHTLC ==
    \/ TxCreateHTLC
    \/ TxClaimHTLC
    \/ TxRefundHTLC
    \/ TxCreateSui
    \/ TxClaimSui
    \/ TxRefundSui
    \/ Tick

SpecHTLC == Init /\ [][NextHTLC]_vars

\* One run of performETHtoSUISwap, with third parties transacting on both
\* chains.
NextSwap ==
    \/ SwapStart
    \/ SwapCreateEth
    \/ SwapCreateSui
    \/ SwapWaitSui
    \/ SwapClaimSui
    \/ SwapClaimEth
    \/ SwapSuiFetchFailed
    \/ SwapThrows
    \/ TxCreateHTLC
    \/ TxClaimHTLC
    \/ TxRefundHTLC
    \/ TxClaimSui
    \/ TxRefundSui
    \/ Tick

SpecSwap == Init /\ [][NextSwap]_vars

\* The operator runs one coordinator: the script performETHtoSUISwap, once,
\* or one CLI session.
RunsScript == cli.used = {} /\ SwapStart
RunsCli == swap.pc = "idle" /\ initSwap

NextCoord ==
    \/ RunsScript
    \/ SwapCreateEth
    \/ SwapCreateSui
    \/ SwapWaitSui
    \/ SwapClaimSui
    \/ SwapClaimEth
    \/ SwapSuiFetchFailed
    \/ SwapThrows
    \/ RunsCli
    \/ createBaseOrder
    \/ createBaseOrder_rejected
    \/ createSuiHTLCStep
    \/ createSuiHTLCStep_rejected
    \/ waitForSuiFinalization
    \/ waitForSuiFinalization_rejected
    \/ claimSuiHTLCStep
    \/ claimSuiHTLCStep_rejected
    \/ executeBaseOrder
    \/ executeBaseOrder_rejected
    \/ Tick

SpecCoord == Init /\ [][NextCoord]_vars

\* The coordinators with crashes of their processes.
NextCrash ==
    \/ NextCoord
    \/ SwapCrash
    \/ CliCrash

SpecCrash == Init /\ [][NextCrash]_vars

\* The coordinators on a network that may lose the response to an executed
\* transaction.
NextLossy ==
    \/ NextCoord
    \/ createSuiHTLCStep_lost
    \/ SwapEthTransportError

SpecLossy == Init /\ [][NextLossy]_vars

\* FusionPlusEscrow under transactions from any account, and one run of the
\* Fusion+ performETHtoSUISwap.
NextFusion ==
    \/ TxInitiateCrossChainSwap
    \/ TxFillEthereumSide
    \/ TxFillNonEVMSide
    \/ TxRefundEthereumSide
    \/ FusionInitiate
    \/ FusionCreateOrder
    \/ FusionSuiTransfer
    \/ FusionFillNonEVM
    \/ FusionThrows
    \/ FusionTick

SpecFusion == Init /\ [][NextFusion]_vars

\* The off-chain code that creates Ethereum locks, performETHtoSUISwap and
\* createHTLCWithOneInch, with third parties transacting on both chains.
NextLocks ==
    \/ NextSwap
    \/ createHTLCWithOneInch

SpecLocks == Init /\ [][NextLocks]_vars

\* One run of performETHtoSUISwap with third parties, one of which opens a
\* swap of its own on a hashlock it has seen.
NextReuse ==
    \/ SwapStart
    \/ SwapCreateEth
    \/ SwapCreateSui
    \/ SwapWaitSui
    \/ SwapClaimSui
    \/ SwapClaimEth
    \/ SwapSuiFetchFailed
    \/ SwapThrows
    \/ TxCopyHashlock
    \/ TxClaimSui
    \/ TxRefundSui
    \/ Tick

SpecReuse == Init /\ [][NextReuse]_vars

\* One CLI session whose lines arrive while earlier commands are awaited.
NextOverlap ==
    \/ initSwap
    \/ processCommand_createSuiHTLC
    \/ createSuiHTLCStep_rejected
    \/ createSuiHTLCStep_resumed
    \/ processCommand_claimSuiHTLC
    \/ claimSuiHTLCStep_rejected
    \/ claimSuiHTLCStep_resumed
    \/ Tick

SpecOverlap == Init /\ [][NextOverlap]_vars

\* LimitOrderEscrow under transactions from any account at any time.
NextEscrow ==
    \/ TxCreateAtomicSwapOrder
    \/ TxFillAtomicSwapOrder
    \/ TxRefundAtomicSwapOrder
    \/ TxAuthorizeRelayer
    \/ TxRevokeRelayer
    \/ TxTransferOwnership
    \/ TxEmergencyRecover
    \/ Tick

SpecEscrow == Init /\ [][NextEscrow]_vars

\* HTLC.sol alone, under transactions from any account at any time, with
\* locks of ETH and of an ERC20 token.
NextToken ==
    \/ TxCreateHTLC
    \/ TxCreateHTLCToken
    \/ TxClaimHTLC
    \/ TxRefundHTLC
    \/ Tick

SpecToken == Init /\ [][NextToken]_vars

\* The 1inch-enabled HTLC under transactions from any account, with both the
\* deployed OneInchIntegration and another contract as its integration.
NextInch ==
    \/ TxApprove
    \/ TxSetOneInchIntegration
    \/ TxInchCreateHTLCToken
    \/ TxInchClaimHTLC
    \/ TxInchRefundHTLC
    \/ TxExecuteOneInchOrder
    \/ InchTick

SpecInch == Init /\ [][NextInch]_vars


\* createHTLC, claimHTLC and refundHTLC of both Solidity HTLC contracts, with
\* ETH locks.
NextCreate ==
    \/ TxCreateHTLC
    \/ TxClaimHTLC
    \/ TxRefundHTLC
    \/ TxInchCreateHTLC
    \/ TxInchClaimHTLC
    \/ TxInchRefundHTLC
    \/ InchTick

SpecCreate == Init /\ [][NextCreate]_vars


(***************************************************************************)
(* Properties of the two lock contracts                                    *)
(***************************************************************************)
EthExists(l) == l.sender # ZeroAddress
EthOpen(l) == EthExists(l) /\ ~l.withdrawn /\ ~l.refunded
SuiOpen(h) == ~h.withdrawn /\ ~h.refunded

\* C1: no lock on either chain is ever both Claimed (withdrawn) and
\* Refunded; once one of the two flags of a lock is set it stays set and the
\* other one never becomes true.
C1_MutualExclusion ==
    [][/\ \A id \in EthIds :
            LET l == ethLocks[id]
                m == ethLocks'[id]
            IN  /\ ~(m.withdrawn /\ m.refunded)
                /\ l.withdrawn => (m.withdrawn /\ ~m.refunded)
                /\ l.refunded => (m.refunded /\ ~m.withdrawn)
       /\ \A o \in SuiIds :
            LET h == suiObjects[o]
                k == suiObjects'[o]
            IN  /\ ~(k.withdrawn /\ k.refunded)
                /\ h.withdrawn => (k.withdrawn /\ ~k.refunded)
                /\ h.refunded => (k.refunded /\ ~k.withdrawn)]_vars

\* A claimed lock whose sender then tried to refund it after the timelock.
C1_Witness ==
    \E id \in EthIds :
        /\ ethLocks[id].withdrawn
        /\ now >= ethLocks[id].timelock
        /\ lastCall = Result("refundHTLC", "Already withdrawn", 0)

\* C2 as stated: after a successful claim every later claim or refund attempt
\* on that lock, by any caller at any time, fails with the AlreadyClaimed
\* error and leaves the lock and all balances unchanged.
C2_AnyCallerAlreadyClaimed ==
    [][/\ lastCall'.fn = "claimHTLC" =>
          \A c \in Addresses, id \in EthIds, s \in Secrets :
            (claimHTLC(c, id, s) /\ ethLocks[id].withdrawn) =>
                /\ lastCall'.err = "Already withdrawn"
                /\ UNCHANGED ethVars
       /\ lastCall'.fn = "refundHTLC" =>
          \A c \in Addresses, id \in EthIds :
            (refundHTLC(c, id) /\ ethLocks[id].withdrawn) =>
                /\ lastCall'.err = "Already withdrawn"
                /\ UNCHANGED ethVars
       /\ lastCall'.fn = "claim_with_secret" =>
          \A c \in Addresses, o \in SuiIds, s \in Secrets :
            (claim_with_secret(c, o, s) /\ suiObjects[o].withdrawn) =>
                /\ lastCall'.code = E_ALREADY_WITHDRAWN
                /\ UNCHANGED suiVars
       /\ lastCall'.fn = "refund_htlc" =>
          \A c \in Addresses, o \in SuiIds :
            (refund_htlc(c, o) /\ suiObjects[o].withdrawn) =>
                /\ lastCall'.code = E_ALREADY_WITHDRAWN
                /\ UNCHANGED suiVars]_vars

\* C2 amended: after a successful claim every later claim or refund attempt
\* on that lock fails and leaves the lock and all balances unchanged; the
\* error is AlreadyClaimed when the caller is the lock's receiver (claim) or
\* sender (refund), and the caller error (Not the receiver / Not the sender /
\* E_UNAUTHORIZED) for every other caller.
C2_AtMostOnceClaim ==
    [][/\ lastCall'.fn = "claimHTLC" =>
          \A c \in Addresses, id \in EthIds, s \in Secrets :
            (claimHTLC(c, id, s) /\ ethLocks[id].withdrawn) =>
                /\ lastCall'.err = IF c = ethLocks[id].receiver
                                   THEN "Already withdrawn"
                                   ELSE "Not the receiver"
                /\ UNCHANGED ethVars
       /\ lastCall'.fn = "refundHTLC" =>
          \A c \in Addresses, id \in EthIds :
            (refundHTLC(c, id) /\ ethLocks[id].withdrawn) =>
                /\ lastCall'.err = IF c = ethLocks[id].sender
                                   THEN "Already withdrawn"
                                   ELSE "Not the sender"
                /\ UNCHANGED ethVars
       /\ lastCall'.fn = "claim_with_secret" =>
          \A c \in Addresses, o \in SuiIds, s \in Secrets :
            (claim_with_secret(c, o, s) /\ suiObjects[o].withdrawn) =>
                /\ lastCall'.code = IF c = suiObjects[o].receiver
                                    THEN E_ALREADY_WITHDRAWN
                                    ELSE E_UNAUTHORIZED
                /\ UNCHANGED suiVars
       /\ lastCall'.fn = "refund_htlc" =>
          \A c \in Addresses, o \in SuiIds :
            (refund_htlc(c, o) /\ suiObjects[o].withdrawn) =>
                /\ lastCall'.code = IF c = suiObjects[o].sender
                                    THEN E_ALREADY_WITHDRAWN
                                    ELSE E_UNAUTHORIZED
                /\ UNCHANGED suiVars]_vars

\* A second claim on a claimed lock was rejected with "Already withdrawn".
C2_Witness ==
    \E id \in EthIds :
        /\ ethLocks[id].withdrawn
        /\ lastCall = Result("claimHTLC", "Already withdrawn", 0)

C4_ClaimOnlyReceiverBeforeTimelock ==
    [][/\ lastCall'.fn = "claimHTLC" =>
          \A c \in Addresses, id \in EthIds, s \in Secrets :
            (claimHTLC(c, id, s)
             /\ (c # ethLocks[id].receiver \/ now >= ethLocks[id].timelock))
            => (lastCall'.err # "ok" /\ UNCHANGED ethVars)
       /\ lastCall'.fn = "claim_with_secret" =>
          \A c \in Addresses, o \in SuiIds, s \in Secrets :
            (claim_with_secret(c, o, s)
             /\ (c # suiObjects[o].receiver
                 \/ current_time >= suiObjects[o].timelock))
            => (lastCall'.code # 0 /\ UNCHANGED suiVars)]_vars

\* An Open lock whose claim was rejected at exactly its timelock.
C4_Witness ==
    \E id \in EthIds :
        /\ EthOpen(ethLocks[id])
        /\ now = ethLocks[id].timelock
        /\ lastCall = Result("claimHTLC", "Timelock expired", 0)

\* C5: a refund succeeds only when the caller is the lock's sender and
\* now >= the lock's own timelock; before that it is rejected and the lock is
\* left as it was, whatever the state of any other lock; a refund by the
\* sender of an Open lock at now >= timelock succeeds and returns the amount.
C5_RefundGatedPerLeg ==
    [][/\ lastCall'.fn = "refundHTLC" =>
          \A c \in Addresses, id \in EthIds :
            LET l == ethLocks[id] IN
            refundHTLC(c, id) =>
                /\ (c # l.sender \/ now < l.timelock)
                    => (lastCall'.err # "ok" /\ UNCHANGED ethVars)
                /\ (EthOpen(l) /\ c = l.sender /\ now >= l.timelock)
                    => /\ lastCall'.err = "ok"
                       /\ ethLocks'[id].refunded
                       /\ ethBalance'[c] = ethBalance[c] + l.amount
       /\ lastCall'.fn = "refund_htlc" =>
          \A c \in Addresses, o \in SuiIds :
            LET h == suiObjects[o] IN
            refund_htlc(c, o) =>
                /\ (c # h.sender \/ current_time < h.timelock)
                    => (lastCall'.code # 0 /\ UNCHANGED suiVars)
                /\ (SuiOpen(h) /\ c = h.sender /\ current_time >= h.timelock)
                    => /\ lastCall'.code = 0
                       /\ suiObjects'[o].refunded
                       /\ suiBalance'[c] = suiBalance[c] + h.amount]_vars

\* The sender's refund of leg A was rejected at a time when a lock on the
\* other chain has already expired, and leg A is still Open.
C5_Witness ==
    \E id \in EthIds, o \in SuiIds :
        /\ EthOpen(ethLocks[id])
        /\ suiObjects[o].timelock <= now
        /\ now < ethLocks[id].timelock
        /\ lastCall = Result("refundHTLC", "Timelock not expired", 0)

(***************************************************************************)
(* Properties of the two coordinators                                      *)
(***************************************************************************)
\* The Ethereum lock of the scripted swap, once its htlcId is generated.
SwapEthLock == ethLocks[EthId(swap.htlcId)]
\* The lock is the one createEthereumHTLC asked for.
SwapEthLockCreated ==
    /\ swap.htlcId # Undefined
    /\ SwapEthLock.sender = ethWalletAddress
    /\ SwapEthLock.hashlock = swap.hashlock
    /\ SwapEthLock.timelock = swap.ethTimelock

C7_MarginAtSuiClaim ==
    [][(/\ swap.suiHtlcResult # 0
        /\ ~suiObjects[swap.suiHtlcResult].withdrawn
        /\ suiObjects'[swap.suiHtlcResult].withdrawn)
        => LET A == ethLocks'[EthId(swap.htlcId)]
               B == suiObjects'[swap.suiHtlcResult]
           IN  /\ now' < B.timelock
               /\ EthExists(A)
               /\ ~A.refunded
               /\ refundHTLC_require(A, A.sender, now') # "ok"
               /\ claimHTLC_require(A, A.receiver, B.secret, now') = "ok"
               /\ A.timelock - now' > 0]_vars

\* The Sui lock was claimed one second before its timelock and the script is
\* about to claim the Ethereum lock.
C7_Witness ==
    /\ swap.pc = "claimEth"
    /\ suiObjects[swap.suiHtlcResult].withdrawn
    /\ suiObjects[swap.suiHtlcResult].secret = swap.secret
    /\ now + 1 = swap.suiTimelock
    /\ EthOpen(SwapEthLock)

\* C8: a coordinator submits the claim of the Ethereum lock (script) or the
\* execution of the Base order (CLI) only when its claim of the swap's Sui
\* lock has completed successfully.
C8_ShorterLegRevealedFirst ==
    [][/\ SwapClaimEth
            => /\ swap.suiClaimResult # Undefined
               /\ suiObjects[swap.suiHtlcResult].withdrawn
       /\ executeBaseOrder
            => /\ swapState.suiClaimResult # Undefined
               /\ suiObjects[swapState.suiHtlcResult].withdrawn]_vars

\* C9: a coordinator submits the claim of the Sui lock only when the long
\* leg's lock or order and the Sui lock have been created and the wait for
\* the Sui lock's finality has returned.
C9_FirstClaimAfterLocksFinal ==
    [][/\ SwapClaimSui
            => /\ SwapEthLockCreated
               /\ swap.suiHtlcResult # 0
               /\ swap.suiFinalized
       /\ claimSuiHTLCStep
            => /\ swapState.baseLimitOrder # None
               /\ swapState.suiHtlcResult # 0
               /\ cli.waited]_vars

\* C10 as stated: the Ethereum lock (the longer timelock) is created only
\* when the Sui lock exists and is final.
C10_ShortLegLockedFirst ==
    [][SwapCreateEth
        => (swap.suiHtlcResult # 0 /\ swap.suiFinalized)]_vars

\* C10: the script creates the Ethereum lock (the longer timelock) first,
\* when no Sui lock of the swap exists, and submits the creation of the Sui
\* lock only when createEthereumHTLC has returned the mined receipt and the
\* Ethereum lock is in the contract; each creation is submitted once, in its
\* own step.
C10_LongLegLockedFirst ==
    [][/\ SwapCreateEth
            => /\ swap.suiHtlcResult = 0
               /\ swap.ethHtlcResult = Undefined
               /\ UNCHANGED suiVars
       /\ SwapCreateSui
            => /\ swap.ethHtlcResult # Undefined
               /\ SwapEthLockCreated
               /\ UNCHANGED ethVars]_vars

\* The script has created the Sui lock after the Ethereum lock and has not
\* yet waited for its finality.
C10_Witness ==
    /\ swap.pc = "waitSui"
    /\ ~swap.suiFinalized
    /\ SwapEthLockCreated
    /\ suiObjects[swap.suiHtlcResult].hashlock = swap.hashlock

C12_RefundIssuedAfterFailure ==
    /\ (/\ swap.pc = "failed"
        /\ SwapEthLockCreated
        /\ EthOpen(SwapEthLock)
        /\ now >= SwapEthLock.timelock)
        => lastCall.fn = "refundHTLC"
    /\ (/\ swap.pc = "failed"
        /\ swap.suiHtlcResult # 0
        /\ SuiOpen(suiObjects[swap.suiHtlcResult])
        /\ current_time >= suiObjects[swap.suiHtlcResult].timelock)
        => lastCall.fn \in {"refundHTLC", "refund_htlc"}

\* C13: a crash after the Sui lock was claimed and before the long leg was
\* completed leaves the coordinator, once restarted, in that phase with the
\* secret and the references of the long leg.
C13_CrashKeepsPhaseAndSecret ==
    [][/\ (SwapCrash /\ swap.pc = "claimEth")
            => /\ swap'.pc = "claimEth"
               /\ swap'.secret = swap.secret
               /\ swap'.htlcId = swap.htlcId
       /\ (CliCrash /\ swapState.suiClaimResult # Undefined)
            => /\ swapState'.suiClaimResult = swapState.suiClaimResult
               /\ swapState'.secret = swapState.secret
               /\ swapState'.baseLimitOrder
                      = swapState.baseLimitOrder]_vars

\* C14: on every leg, a limit-order fill included, the value reaches the
\* counterparty only through an operation that presents a secret whose
\* SHA-256 is the swap's hashlock.
C14_FundsMoveOnlyWithSecret ==
    /\ \A id \in EthIds :
        ethLocks[id].withdrawn
            => Sha256(ethLocks[id].secret) = ethLocks[id].hashlock
    /\ \A o \in SuiIds :
        suiObjects[o].withdrawn
            => Sha256(suiObjects[o].secret) = suiObjects[o].hashlock
    /\ cli.filled => Sha256(cli.presented) = swapState.hashlock

(***************************************************************************)
(* Properties of FusionPlusEscrow                                          *)
(***************************************************************************)
\* C15: where a leg is completed by a fill, the leg filled second has a
\* strictly later deadline than the leg filled first: once the first fill
\* of a swap succeeds, the fill of the other side is still accepted at a
\* later instant.
C15_SecondFillHasMargin ==
    [][\A id \in SwapIdsOf(fusionEscrow) :
        LET s == fusionEscrow.crossChainSwaps[id]
            t == fusionEscrow'.crossChainSwaps[id]
        IN  /\ (/\ lastCall'.fn = "fillNonEVMSide"
                /\ ~s.nonEVMFilled /\ t.nonEVMFilled
                /\ ~s.ethFilled /\ ~s.ethRefunded)
                => \E secret \in Secrets :
                    fillEthereumSide_require(t, secret, now + 1) = "ok"
            /\ (/\ lastCall'.fn = "fillEthereumSide"
                /\ ~s.ethFilled /\ t.ethFilled
                /\ ~s.nonEVMFilled /\ ~s.nonEVMRefunded)
                => \E secret \in Secrets :
                    fillNonEVMSide_require(t, secret, now + 1) = "ok"]_vars

(***************************************************************************)
(* Properties of the off-chain lock creators                               *)
(***************************************************************************)
OneInchLock == ethLocks[oneInchSwap.htlcId]

\* C16: every hashlock that off-chain code commits into a lock is the
\* SHA-256 of the secret generated for it, so every lock the swap code
\* created is claimable by its receiver before the timelock with that
\* secret.
C16_CommittedHashlockIsSha256 ==
    /\ SwapEthLockCreated
        => /\ SwapEthLock.hashlock = Sha256(swap.secret)
           /\ (EthOpen(SwapEthLock) /\ now < SwapEthLock.timelock)
                => claimHTLC_require(SwapEthLock, SwapEthLock.receiver,
                                     swap.secret, now) = "ok"
    /\ swap.suiHtlcResult # 0
        => LET h == suiObjects[swap.suiHtlcResult]
           IN  /\ h.hashlock = Sha256(swap.secret)
               /\ (SuiOpen(h) /\ current_time < h.timelock)
                    => claim_with_secret_abort(h, h.receiver, swap.secret,
                                               current_time) = 0
    /\ oneInchSwap.htlcId # Undefined
        => /\ OneInchLock.hashlock = Sha256(oneInchSwap.secret)
           /\ (EthOpen(OneInchLock) /\ now < OneInchLock.timelock)
                => claimHTLC_require(OneInchLock, OneInchLock.receiver,
                                     oneInchSwap.secret, now) = "ok"

\* C17: on both chains, creating a lock whose timelock is not strictly in
\* the future fails with the invalid-timelock error, creates no lock and
\* escrows no funds.
C17_PastTimelockRejected ==
    [][/\ lastCall'.fn = "createHTLC" =>
            \A c \in Addresses, id \in EthIds,
               r \in Addresses \cup {ZeroAddress}, h \in Hashlocks,
               tl \in Timelocks, v \in Amounts :
                (tl <= now /\ createHTLC(c, id, r, h, tl, v))
                    => /\ lastCall'.err = "Timelock must be in the future"
                       /\ UNCHANGED ethVars
       /\ lastCall'.fn = "create_htlc" =>
            \A c \in Addresses, id \in HtlcIds, r \in Addresses,
               h \in Hashlocks, tl \in Timelocks, v \in Amounts :
                (tl <= current_time /\ create_htlc(c, id, r, h, tl, v))
                    => /\ lastCall'.code # 0
                       /\ UNCHANGED suiVars]_vars

\* The Sui locks the CLI's keypair created for the current swap.
CliLegLocks ==
    {o \in SuiIds : /\ suiObjects[o].sender = cliSuiAddress
                    /\ suiObjects[o].htlc_id = swapState.htlcId
                    /\ suiObjects[o].hashlock = swapState.hashlock}

\* C18: retrying a lock creation is idempotent: when a creation was
\* executed on chain but its response was lost and the coordinator submits
\* the creation again, the swap leg still has at most one lock and the
\* sender's funds are escrowed only once.
C18_CreateRetryIdempotent ==
    [][(/\ cli.out = "fetch failed"
        /\ swapState.suiHtlcResult = 0
        /\ CliLegLocks # {}
        /\ createSuiHTLCStep)
            => /\ Cardinality({o \in 1..Len(suiObjects') :
                        /\ suiObjects'[o].sender = cliSuiAddress
                        /\ suiObjects'[o].htlc_id = swapState.htlcId
                        /\ suiObjects'[o].hashlock = swapState.hashlock}) <= 1
               /\ suiBalance' = suiBalance]_vars

\* C19: every transaction submission of the coordinator is retried on a
\* transport error, a bounded number of times, and a transport error does
\* not end the swap while attempts remain; any other error ends the
\* operation at once; every retry uses up one of the attempts.
C19_TransportErrorsRetried ==
    [][/\ (SwapSuiFetchFailed /\ swap.retries = SuiRetries)
            => swap'.pc = swap.pc
       /\ (/\ swap.pc \in {"createEth", "claimEth"}
           /\ lastCall'.err = "TransportError")
            => swap'.pc = swap.pc
       /\ (SwapCreateEth /\ lastCall'.err # "ok") => swap'.pc = "failed"
       /\ (SwapClaimEth /\ lastCall'.err # "ok") => swap'.pc = "failed"
       /\ (SwapClaimSui /\ lastCall'.code # 0) => swap'.pc = "failed"
       /\ (/\ swap.pc \in {"createEth", "createSui", "claimSui", "claimEth"}
           /\ swap'.pc = swap.pc
           /\ swap' # swap)
            => (swap'.retries < swap.retries /\ swap'.retries >= 1)]_vars

\* C20: a claim attempt that finds the lock already claimed counts as a
\* succeeded claim step: the coordinator goes on to the claim of the other
\* leg (after the Sui claim) or completes the swap (after the Ethereum
\* claim) instead of failing.
C20_AlreadyClaimedIsSuccess ==
    [][/\ (SwapClaimSui /\ lastCall'.code = E_ALREADY_WITHDRAWN)
            => swap'.pc = performETHtoSUISwap("claimSui")
       /\ (SwapClaimEth /\ lastCall'.err = "Already withdrawn")
            => swap'.pc = performETHtoSUISwap("claimEth")]_vars

(***************************************************************************)
(* Properties of hashlock use                                              *)
(***************************************************************************)
\* The swap a lock belongs to: its sender and its htlc_id (the Ethereum id is
\* the hash of the htlc_id).
EthSwapOf(l) == <<l.sender, l.htlc_id>>
SuiSwapOf(h) == <<h.sender, EthId(h.htlc_id)>>

\* The swaps, other than `sw`, that hold an Open lock with hashlock `hl`.
SwapsInFlightOn(hl, sw) ==
    ({EthSwapOf(ethLocks[id]) :
        id \in {i \in EthIds : EthOpen(ethLocks[i])
                                /\ ethLocks[i].hashlock = hl}}
     \cup {SuiSwapOf(suiObjects[o]) :
        o \in {i \in SuiIds : SuiOpen(suiObjects[i])
                               /\ suiObjects[i].hashlock = hl}})
        \ {sw}

\* C21: no lock is ever created with the hashlock of another swap that is
\* still in flight, and initiateCrossChainSwap never accepts a hashlock an
\* earlier cross-chain swap used.
C21_NoHashlockReuse ==
    [][/\ (lastCall'.fn = "createHTLC" /\ lastCall'.err = "ok")
            => \A id \in EthIds :
                (~EthExists(ethLocks[id]) /\ EthExists(ethLocks'[id]))
                    => SwapsInFlightOn(ethLocks'[id].hashlock,
                                       EthSwapOf(ethLocks'[id])) = {}
       /\ (lastCall'.fn = "create_htlc" /\ Len(suiObjects') > Len(suiObjects))
            => LET h == suiObjects'[Len(suiObjects')]
               IN  SwapsInFlightOn(h.hashlock, SuiSwapOf(h)) = {}
       /\ (lastCall'.fn = "initiateCrossChainSwap" /\ lastCall'.err = "ok")
            => \A id \in SwapIdsOf(fusionEscrow') \ SwapIdsOf(fusionEscrow) :
                \A old \in SwapIdsOf(fusionEscrow) :
                    fusionEscrow.crossChainSwaps[old].hashlock
                        # fusionEscrow'.crossChainSwaps[id].hashlock]_vars


(***************************************************************************)
(* Confidentiality of the secret before the reveal                         *)
(***************************************************************************)
\* The script has generated a secret and has not yet submitted a claim.
ScriptBeforeClaim == swap.pc \in {"createEth", "createSui", "waitSui", "claimSui"}

\* The CLI has generated a secret and holds neither a Sui lock nor an
\* order, so that neither of its claiming commands has passed its checks.
CliBeforeClaim ==
    /\ swapState.secret # Undefined
    /\ swapState.suiHtlcResult = 0
    /\ swapState.baseLimitOrder = None

\* C22: before a coordinator submits its first claim transaction, the
\* secret of its swap has not been written to the console, which is an
\* observable channel: the output then does not depend on the secret.
C22_SecretNotEmittedBeforeClaim ==
    /\ ScriptBeforeClaim => swap.secret \notin console
    /\ CliBeforeClaim => swapState.secret \notin console


(***************************************************************************)
(* The CLI's swap record                                                   *)
(***************************************************************************)
\* The CLI's swap has a lock on Sui that is neither claimed nor refunded.
CliLockUnclaimed ==
    /\ swapState.suiHtlcResult # 0
    /\ SuiOpen(suiObjects[swapState.suiHtlcResult])

\* C23: the swap record is neither discarded nor overwritten while a leg
\* of its swap is not terminal: a step of the CLI taken while the swap's
\* Sui lock is created and unclaimed (init-swap in particular) keeps the
\* swap's secret and the reference to its lock.
C23_RecordKeptWhileLockOpen ==
    [][CliLockUnclaimed =>
            /\ swapState'.secret = swapState.secret
            /\ swapState'.suiHtlcResult = swapState.suiHtlcResult]_vars


(***************************************************************************)
(* Serialisation of the CLI's commands                                     *)
(***************************************************************************)
\* A command handler starts in this step: it is suspended at its first
\* await, or it is init-swap, which runs to its end.
HandlerStarts == Len(pending') > Len(pending) \/ cli'.used # cli.used

\* C24: at most one coordinator action acts on a swap at a time: no
\* command handler of the CLI starts while another one is awaiting a chain
\* call.
C24_CommandsSerialised == [][HandlerStarts => pending = <<>>]_vars


(***************************************************************************)
(* The secret field of a lock                                              *)
(***************************************************************************)
\* C25: on both chains the secret field of a lock (what getSecret and
\* get_revealed_secret return) is empty unless the lock is Claimed, and the
\* secret of a Claimed lock hashes under SHA-256 to the lock's hashlock.
C25_SecretOnlyWhenClaimed ==
    /\ \A id \in EthIds :
        LET l == ethLocks[id]
        IN  /\ l.secret # ZeroBytes32 => l.withdrawn
            /\ l.withdrawn => Sha256(l.secret) = l.hashlock
    /\ \A o \in SuiIds :
        LET h == suiObjects[o]
        IN  /\ h.secret # EmptyVector => h.withdrawn
            /\ h.withdrawn => Sha256(h.secret) = h.hashlock

\* A lock of each chain is Claimed and holds its secret, and another lock
\* exists whose secret field is still empty.
C25_Witness ==
    /\ \E id \in EthIds : ethLocks[id].withdrawn /\ ethLocks[id].secret \in Secrets
    /\ \E o \in SuiIds : suiObjects[o].withdrawn /\ suiObjects[o].secret \in Secrets


(***************************************************************************)
(* Properties of LimitOrderEscrow                                          *)
(***************************************************************************)
AtomicSwapOrder(o) == limitOrderEscrow.atomicSwapOrders[o]

\* C26: fillAtomicSwapOrder succeeds only when its caller is an authorized
\* relayer at the time of the call, so an address that was never
\* authorized or whose authorization was revoked cannot fill an order; and
\* the set of authorized relayers changes only in a call of authorizeRelayer
\* or revokeRelayer made by the owner.
C26_OnlyAuthorizedRelayerFills ==
    [][/\ \A o \in OrderIds :
            (AtomicSwapOrder(o)'.filled /\ ~AtomicSwapOrder(o).filled) =>
                /\ lastCall'.fn = "fillAtomicSwapOrder"
                /\ lastCall'.caller \in limitOrderEscrow.authorizedRelayers
       /\ limitOrderEscrow'.authorizedRelayers
                # limitOrderEscrow.authorizedRelayers =>
            /\ lastCall'.fn \in {"authorizeRelayer", "revokeRelayer"}
            /\ lastCall'.caller = limitOrderEscrow.owner]_vars

\* An authorized relayer has filled the order while another address is not
\* authorized.
C26_Witness ==
    /\ lastCall.fn = "fillAtomicSwapOrder"
    /\ lastCall.err = "ok"
    /\ AtomicSwapOrder("o1").filled
    /\ limitOrderEscrow.authorizedRelayers = {lastCall.caller}

\* C27: no order is ever both filled and refunded; an order becomes filled
\* only at now < timelock and with a secret whose SHA-256 is its hashlock;
\* it becomes refunded only at now >= timelock, in a call by its maker or
\* its taker, and the maker then receives the makerAmount that was
\* deposited when the order was created.
C27_OrderFillRefund ==
    [][\A o \in OrderIds :
        LET a == AtomicSwapOrder(o)
            b == AtomicSwapOrder(o)'
        IN  /\ ~(b.filled /\ b.refunded)
            /\ (b.maker # ZeroAddress /\ a.maker = ZeroAddress) =>
                    ethBalance'[LimitOrderAddress]
                        = ethBalance[LimitOrderAddress] + b.makerAmount
            /\ (b.filled /\ ~a.filled) =>
                    /\ now < a.timelock
                    /\ Sha256(b.secret) = a.hashlock
            /\ (b.refunded /\ ~a.refunded) =>
                    /\ now >= a.timelock
                    /\ lastCall'.fn = "refundAtomicSwapOrder"
                    /\ lastCall'.caller \in {a.maker, a.taker}
                    /\ ethBalance'[a.maker]
                            = ethBalance[a.maker] + a.makerAmount]_vars

\* An order was refunded to its maker by its taker.
C27_Witness ==
    /\ lastCall.fn = "refundAtomicSwapOrder"
    /\ lastCall.err = "ok"
    /\ AtomicSwapOrder("o1").refunded
    /\ lastCall.caller = AtomicSwapOrder("o1").taker


(***************************************************************************)
(* Failed commands of the CLI                                              *)
(***************************************************************************)
\* C28: a CLI command that fails, because an earlier step is missing or
\* because the chain call throws, leaves swapState exactly as it was; the
\* result of a step (the order, the Sui lock, the Sui claim) is written to
\* swapState only in a step that succeeded.
C28_FailedCommandKeepsState ==
    [][/\ cli'.out # "ok" => swapState' = swapState
       /\ (swapState'.baseLimitOrder # swapState.baseLimitOrder
                /\ swapState'.baseLimitOrder # None) => cli'.out = "ok"
       /\ (swapState'.suiHtlcResult # swapState.suiHtlcResult
                /\ swapState'.suiHtlcResult # 0) =>
            /\ cli'.out = "ok"
            /\ Len(suiObjects') = Len(suiObjects) + 1
            /\ swapState'.suiHtlcResult = Len(suiObjects')
       /\ (swapState'.suiClaimResult # swapState.suiClaimResult
                /\ swapState'.suiClaimResult # Undefined) =>
            /\ cli'.out = "ok"
            /\ lastCall'.fn = "claim_with_secret"
            /\ lastCall'.code = 0
            /\ suiObjects'[swapState.suiHtlcResult].withdrawn]_vars

\* claim-sui-htlc has failed on the chain for a swap whose Sui lock exists,
\* and no claim result is recorded.
C28_Witness ==
    /\ cli.out = "call failed"
    /\ lastCall.fn = "claim_with_secret"
    /\ lastCall.code # 0
    /\ swapState.suiHtlcResult # 0
    /\ swapState.suiClaimResult = Undefined


(***************************************************************************)
(* The two exits of an Open lock                                           *)
(***************************************************************************)
\* The chain times around a timelock, and the current time.
ExitTimes(timelock) ==
    {t \in {now, timelock - 1, timelock, timelock + 1} : t >= 0}

\* claimHTLC by the receiver with `secret` at time t would go through.
EthClaimEnabled(l, secret, t) ==
    /\ claimHTLC_require(l, l.receiver, secret, t) = "ok"
    /\ ethBalance[HTLCAddress] >= l.amount

\* refundHTLC by the sender at time t would go through.
EthRefundEnabled(l, t) ==
    /\ refundHTLC_require(l, l.sender, t) = "ok"
    /\ ethBalance[HTLCAddress] >= l.amount

\* C29: for every Open lock and every chain time t exactly one exit is
\* enabled: the claim by the receiver with the correct secret iff
\* t < timelock, the refund by the sender iff t >= timelock; at no time,
\* t = timelock included, are both enabled or neither.
C29_ExactlyOneExit ==
    /\ \A id \in EthIds :
        LET l == ethLocks[id]
        IN  EthOpen(l) =>
                \A t \in ExitTimes(l.timelock) :
                    /\ \A s \in Secrets :
                            Sha256(s) = l.hashlock =>
                                (EthClaimEnabled(l, s, t) <=> t < l.timelock)
                    /\ EthRefundEnabled(l, t) <=> t >= l.timelock
    /\ \A o \in SuiIds :
        LET h == suiObjects[o]
        IN  SuiOpen(h) =>
                \A t \in ExitTimes(h.timelock) :
                    /\ \A s \in Secrets :
                            Sha256(s) = h.hashlock =>
                                (claim_with_secret_abort(h, h.receiver, s, t) = 0
                                    <=> t < h.timelock)
                    /\ refund_htlc_abort(h, h.sender, t) = 0
                            <=> t >= h.timelock

\* The clock stands exactly at the timelock of an Open lock of each chain
\* whose hashlock has a known preimage.
C29_Witness ==
    /\ \E id \in EthIds :
            /\ EthOpen(ethLocks[id])
            /\ now = ethLocks[id].timelock
            /\ \E s \in Secrets : Sha256(s) = ethLocks[id].hashlock
    /\ \E o \in SuiIds :
            /\ SuiOpen(suiObjects[o])
            /\ now = suiObjects[o].timelock
            /\ \E s \in Secrets : Sha256(s) = suiObjects[o].hashlock


(***************************************************************************)
(* Conservation of the ETH of HTLC.sol                                     *)
(***************************************************************************)
RECURSIVE SumAmounts(_, _)
SumAmounts(locks, ids) ==
    IF ids = {} THEN 0
    ELSE LET id == CHOOSE i \in ids : TRUE
         IN  locks[id].amount + SumAmounts(locks, ids \ {id})

\* The ids of the Open locks of ETH.
OpenEthLocks(locks) ==
    {id \in EthIds : EthOpen(locks[id]) /\ locks[id].token = ZeroAddress}

\* C30: after any sequence of createHTLC, claimHTLC and refundHTLC calls
\* the ETH the HTLC contract holds equals the sum of the amounts of the Open
\* ETH locks; a successful claim moves exactly the lock's amount to its
\* receiver and a successful refund exactly that amount to its sender; and
\* amount, hashlock, timelock, sender and receiver of a lock never change
\* after its creation.
C30_EthConservation ==
    [][/\ ethBalance'[HTLCAddress] = SumAmounts(ethLocks', OpenEthLocks(ethLocks'))
       /\ \A id \in EthIds :
            LET l == ethLocks[id]
                m == ethLocks'[id]
            IN  /\ (l.token = ZeroAddress /\ m.withdrawn /\ ~l.withdrawn) =>
                        /\ ethBalance'[l.receiver] = ethBalance[l.receiver] + l.amount
                        /\ ethBalance'[HTLCAddress] = ethBalance[HTLCAddress] - l.amount
                /\ (l.token = ZeroAddress /\ m.refunded /\ ~l.refunded) =>
                        /\ ethBalance'[l.sender] = ethBalance[l.sender] + l.amount
                        /\ ethBalance'[HTLCAddress] = ethBalance[HTLCAddress] - l.amount
                /\ EthExists(l) =>
                        /\ m.amount = l.amount
                        /\ m.hashlock = l.hashlock
                        /\ m.timelock = l.timelock
                        /\ m.sender = l.sender
                        /\ m.receiver = l.receiver]_vars


(***************************************************************************)
(* Properties of the HTLC with 1inch integration                           *)
(***************************************************************************)
InchOpen(id) ==
    /\ inchHTLC.locks[id].sender # ZeroAddress
    /\ ~inchHTLC.locks[id].withdrawn
    /\ ~inchHTLC.locks[id].refunded

OpenInchLocks(tok) == {id \in InchIds : InchOpen(id) /\ inchHTLC.locks[id].token = tok}

RECURSIVE SumInchAmounts(_)
SumInchAmounts(ids) ==
    IF ids = {} THEN 0
    ELSE LET id == CHOOSE x \in ids : TRUE
         IN  inchHTLC.locks[id].amount + SumInchAmounts(ids \ {id})

\* C33: for every token, the amounts of the Open locks of that token add up
\* to no more than the balance the contract has of that token, after any
\* sequence of createHTLC, executeOneInchOrder, claimHTLC and refundHTLC.
C33_OpenLocksCovered ==
    \A tok \in Tokens :
        SumInchAmounts(OpenInchLocks(tok)) <= erc20.balance[tok][OneInchHTLCAddress]

\* C34: executeOneInchOrder succeeds only where canExecuteOrder can return
\* true for the same lock, order and making amount, so that it never sends
\* more than the amount of the lock out of the contract.
C34_ExecuteOnlyIfCanExecute ==
    [][(lastCall'.fn = "executeOneInchOrder" /\ lastCall'.err = "ok") =>
        /\ \E fillable \in (IF inchHTLC.oneInchIntegration = IntegrationAddress
                            THEN {canFillOrder(erc20, lastCall'.order, lastCall'.makingAmount)}
                            ELSE BOOLEAN) :
              canExecuteOrder(inchHTLC.locks[lastCall'.id], lastCall'.order,
                              lastCall'.makingAmount,
                              inchHTLC.oneInchIntegration, fillable)
        /\ lastCall'.makingAmount <= inchHTLC.locks[lastCall'.id].amount]_vars

\* What the HTLC received of a token during the step.
Received(tok) ==
    erc20'.balance[tok][OneInchHTLCAddress] - erc20.balance[tok][OneInchHTLCAddress]

\* C35: a lock keeps its token and amount when the fill of
\* executeOneInchOrder fails (OrderFillFailed); they change only when the
\* fill succeeded, and then to the taker asset and the amount of it
\* received for this lock.
C35_LockFollowsFill ==
    [][lastCall'.fn = "executeOneInchOrder" =>
        \A id \in InchIds :
           LET before == inchHTLC.locks[id]
               after == inchHTLC'.locks[id]
           IN  /\ (lastCall'.err # "ok" \/ lastCall'.event = "OrderFillFailed")
                     => after = before
               /\ after # before =>
                     /\ id = lastCall'.id
                     /\ after.token = lastCall'.order.takerAsset
                     /\ after.amount = Received(lastCall'.order.takerAsset)]_vars


(***************************************************************************)
(* createHTLC on an id that is taken                                       *)
(***************************************************************************)
InchExists(id) == inchHTLC.locks[id].sender # ZeroAddress

\* The error createHTLC gives for an id that is taken: the checks of the
\* timelock and of the receiver come first.
ExistingIdError(receiver, timelock) ==
    IF ~(timelock > now) THEN "Timelock must be in the future"
    ELSE IF receiver = ZeroAddress THEN "Invalid receiver address"
    ELSE "HTLC already exists"

\* C31 as stated: createHTLC with an htlc_id for which a lock exists, in
\* whatever status, is rejected with 'HTLC already exists', takes no funds and
\* leaves the lock unchanged, in HTLC.sol and in the HTLC with 1inch
\* integration.
C31_ExistingIdRejected ==
    [][lastCall'.fn = "createHTLC" =>
        /\ "event" \notin DOMAIN lastCall' =>
             \A id \in {x \in EthIds : EthExists(ethLocks[x])}, p \in Parties, r \in {1, 2}, h \in Hashlocks, tl \in Timelocks, v \in Amounts :
                createHTLC(p[1], id, IF r = 1 THEN p[2] ELSE ZeroAddress, h, tl, v) =>
                    /\ lastCall'.err = "HTLC already exists"
                    /\ UNCHANGED ethVars
        /\ "event" \in DOMAIN lastCall' =>
             \A id \in {x \in InchEthIds : InchExists(x)}, r \in {"bob", ZeroAddress}, tl \in InchTimelocks, v \in Amounts :
                inch_createHTLC("alice", id, r, Sha256("s1"), tl, ZeroAddress, v) =>
                    /\ lastCall'.err = "HTLC already exists"
                    /\ UNCHANGED <<inchHTLC, erc20, ethBalance>>]_vars

\* C31 amended: such a call is always rejected, takes no funds and leaves the
\* lock unchanged; the error is 'HTLC already exists' when the timelock
\* passed is in the future and the receiver passed is not the zero address,
\* and the error of the failing one of these two checks otherwise.
C31_ExistingIdNeverOverwritten ==
    [][lastCall'.fn = "createHTLC" =>
        /\ "event" \notin DOMAIN lastCall' =>
             \A id \in {x \in EthIds : EthExists(ethLocks[x])}, p \in Parties, r \in {1, 2}, h \in Hashlocks, tl \in Timelocks, v \in Amounts :
                createHTLC(p[1], id, IF r = 1 THEN p[2] ELSE ZeroAddress, h, tl, v) =>
                    /\ lastCall'.err = ExistingIdError(IF r = 1 THEN p[2] ELSE ZeroAddress, tl)
                    /\ UNCHANGED ethVars
        /\ "event" \in DOMAIN lastCall' =>
             \A id \in {x \in InchEthIds : InchExists(x)}, r \in {"bob", ZeroAddress}, tl \in InchTimelocks, v \in Amounts :
                inch_createHTLC("alice", id, r, Sha256("s1"), tl, ZeroAddress, v) =>
                    /\ lastCall'.err = ExistingIdError(r, tl)
                    /\ UNCHANGED <<inchHTLC, erc20, ethBalance>>]_vars

\* A claimed lock of the HTLC with 1inch integration whose id was passed to
\* createHTLC again.
C31_Witness ==
    \E id \in InchEthIds :
        /\ inchHTLC.locks[id].withdrawn
        /\ lastCall = InchResult("createHTLC", "HTLC already exists", id, NoOrder, 0, "none")


(***************************************************************************)
(* The coin of a Sui HTLC                                                  *)
(***************************************************************************)
\* C32: in the Sui HTLC the coin is in the object (coin is Some) exactly
\* while the HTLC is neither withdrawn nor refunded; option::extract in
\* claim_with_secret and refund_htlc never aborts on an empty option, and a
\* coin that has left the object never comes back.
C32_CoinPresentIffOpen ==
    [][/\ \A o \in 1..Len(suiObjects') :
            (suiObjects'[o].coin # None) <=> SuiOpen(suiObjects'[o])
       /\ lastCall'.code # EOPTION_NOT_SET
       /\ \A o \in SuiIds :
            suiObjects[o].coin = None => suiObjects'[o].coin = None]_vars

\* A claimed HTLC, its coin gone, on which a second claim was attempted.
C32_Witness ==
    \E o \in SuiIds :
        /\ suiObjects[o].withdrawn
        /\ suiObjects[o].coin = None
        /\ suiObjects[o].amount > 0
        /\ lastCall = Result("claim_with_secret", "abort", E_ALREADY_WITHDRAWN)


(***************************************************************************)
(* The Ethereum side of a FusionPlusEscrow swap                            *)
(***************************************************************************)
\* C36: the Ethereum side of a swap is never both filled and refunded and
\* neither flag is ever cleared; it becomes filled only by a fillEthereumSide
\* at now < timelock with a secret whose SHA-256 is the hashlock, on a side
\* neither filled nor refunded; it becomes refunded only by a
\* refundEthereumSide at now >= timelock on such a side, which pays ethAmount
\* to the initiator; ETH leaves the contract only in these two steps, and then
\* exactly the ethAmount of that swap.
C36_EthSideFilledXorRefunded ==
    [][/\ \A id \in SwapIdsOf(fusionEscrow') :
            LET s == crossChainSwap(fusionEscrow, id)
                s2 == crossChainSwap(fusionEscrow', id)
            IN  /\ ~(s2.ethFilled /\ s2.ethRefunded)
                /\ s.ethFilled => s2.ethFilled
                /\ s.ethRefunded => s2.ethRefunded
                /\ (~s.ethFilled /\ s2.ethFilled) =>
                      /\ lastCall' = Result("fillEthereumSide", "ok", 0)
                      /\ now < s.timelock
                      /\ ~s.ethRefunded
                      /\ \A c \in {"carol"}, secret \in Secrets, r \in Addresses :
                            fillEthereumSide(c, id, secret, r) =>
                                Sha256(secret) = s.hashlock
                      /\ ethBalance'[FusionAddress] = ethBalance[FusionAddress] - s.ethAmount
                /\ (~s.ethRefunded /\ s2.ethRefunded) =>
                      /\ lastCall' = Result("refundEthereumSide", "ok", 0)
                      /\ now >= s.timelock
                      /\ ~s.ethFilled
                      /\ ethBalance'[s.initiator] = ethBalance[s.initiator] + s.ethAmount
                      /\ ethBalance'[FusionAddress] = ethBalance[FusionAddress] - s.ethAmount
       /\ ethBalance'[FusionAddress] < ethBalance[FusionAddress] =>
            \E id \in SwapIdsOf(fusionEscrow) :
                LET s == crossChainSwap(fusionEscrow, id)
                    s2 == crossChainSwap(fusionEscrow', id)
                IN  \/ ~s.ethFilled /\ s2.ethFilled
                    \/ ~s.ethRefunded /\ s2.ethRefunded]_vars

\* A filled swap whose refund was attempted after the timelock.
C36_Witness ==
    \E id \in SwapIdsOf(fusionEscrow) :
        /\ fusionEscrow.crossChainSwaps[id].ethFilled
        /\ now >= fusionEscrow.crossChainSwaps[id].timelock
        /\ lastCall = Result("refundEthereumSide", "ETH side already filled", 0)

\* The Ethereum addresses a CrossChainSwap fixes at initiation: the struct
\* records the initiator and the non-EVM address of a party, and no
\* Ethereum receiver.
FixedAtInitiation(s) ==
    {a \in Addresses : a = s.initiator \/ Keccak256(a) = s.nonEVMAddress}

\* C37: the ETH locked for a swap is only ever paid to a party fixed at
\* initiation, by fillEthereumSide as by refundEthereumSide, so that nobody
\* who learns the secret can have it paid to an address of their choosing.
C37_PaidOnlyToFixedParty ==
    [][(lastCall'.fn \in {"fillEthereumSide", "refundEthereumSide"} /\ lastCall'.err = "ok") =>
        \A id \in SwapIdsOf(fusionEscrow) :
            LET s == crossChainSwap(fusionEscrow, id)
                s2 == crossChainSwap(fusionEscrow', id)
            IN  (s2.ethFilled # s.ethFilled \/ s2.ethRefunded # s.ethRefunded) =>
                    \A a \in Addresses :
                        ethBalance'[a] > ethBalance[a] => a \in FixedAtInitiation(s)]_vars

\* The theft C37 excludes: the secret is public through fillNonEVMSide and
\* the locked ETH of alice's swap has been paid to carol.
C37_ThirdPartyPaid ==
    \E id \in SwapIdsOf(fusionEscrow) :
        /\ fusionEscrow.crossChainSwaps[id].nonEVMFilled
        /\ fusionEscrow.crossChainSwaps[id].ethFilled
        /\ fusionEscrow.crossChainSwaps[id].initiator = "alice"
        /\ ethBalance["carol"] = InitBalance + fusionEscrow.crossChainSwaps[id].ethAmount
        /\ lastCall = Result("fillEthereumSide", "ok", 0)

====
